---- MODULE Spec2Model ----
(***************************************************************************)
(* State-machine model of the Streamlit SQL tool: the identifier           *)
(* sanitizers (sql_utils.py), the visual query builder                     *)
(* (query_builder.py), the custom query page (pages/02_Custom_Query.py)    *)
(* and the session history (history.py).                                   *)
(*                                                                         *)
(* Text is modelled as a sequence of one-character strings, so that the    *)
(* regular expressions, the f-string interpolation and the quoting of the  *)
(* SQL builder are computed character by character.                        *)
(***************************************************************************)
EXTENDS Integers, Sequences, FiniteSets, TLC

VARIABLES
    arg,                \* argument of the pure function under check
    ret,                \* its result, NoValue before the call
    widgets,            \* values of the query builder's widgets
    agg_conditions,     \* st.session_state.agg_conditions
    join_conditions,    \* st.session_state.join_conditions
    conditions,         \* st.session_state.conditions
    history,            \* st.session_state.history
    notifications,      \* st.session_state.notifications
    shown               \* what the last interaction displayed and executed

vars == <<arg, ret, widgets, agg_conditions, join_conditions, conditions, history,
          notifications, shown>>

sessionVars == <<widgets, agg_conditions, join_conditions, conditions, history,
                 notifications, shown>>

NoValue == [none |-> TRUE]

\* ------------------------------------------------------------------ bounds

MaxNameLen == 3

MaxSelected == 3

MaxAggregates == 2

MaxConditions == 1

MaxRuns == 2

\* ------------------------------------------------------------- characters

LowerLetters ==
    {"a","b","c","d","e","f","g","h","i","j","k","l","m",
     "n","o","p","q","r","s","t","u","v","w","x","y","z"}

UpperSeq ==
    <<"A","B","C","D","E","F","G","H","I","J","K","L","M",
      "N","O","P","Q","R","S","T","U","V","W","X","Y","Z">>

LowerSeq ==
    <<"a","b","c","d","e","f","g","h","i","j","k","l","m",
      "n","o","p","q","r","s","t","u","v","w","x","y","z">>

UpperLetters == {UpperSeq[i] : i \in 1..26}

Digits == {"0","1","2","3","4","5","6","7","8","9"}

\* [a-zA-Z_]
IsIdentStart(c) == c \in LowerLetters \cup UpperLetters \cup {"_"}

\* [a-zA-Z0-9_]
IsIdentPart(c) == IsIdentStart(c) \/ c \in Digits

\* str.lower() on one character
LowerChar(c) ==
    IF c \in UpperLetters
    THEN LowerSeq[CHOOSE i \in 1..26 : UpperSeq[i] = c]
    ELSE c

\* All texts over alphabet A of length at most n
RECURSIVE TextsOfLen(_, _)
TextsOfLen(A, n) ==
    IF n = 0 THEN {<<>>}
    ELSE {Append(s, c) : s \in TextsOfLen(A, n - 1), c \in A}

TextsUpTo(A, n) == UNION {TextsOfLen(A, k) : k \in 0..n}

\* ------------------------------------------------------- sql_utils.py

\* The literal "Invalid identifier: " of the ValueError message
InvalidIdentifierPrefix ==
    <<"I","n","v","a","l","i","d"," ","i","d","e","n","t","i","f","i","e","r",":"," ">>

\* Python's `$` outside MULTILINE mode: at the end of the string, or just
\* before a newline that is the last character of the string.
DollarMatchesAt(s, p) ==
    \/ p = Len(s) + 1
    \/ p = Len(s) /\ s[p] = "\n"

\* re.match(r'^[a-zA-Z_][a-zA-Z0-9_]*$', name): some prefix s[1..k] is one
\* start character followed by part characters, and `$` matches right after it.
MatchesIdentifierPattern(s) ==
    \E k \in 1..Len(s) :
        /\ IsIdentStart(s[1])
        /\ \A j \in 2..k : IsIdentPart(s[j])
        /\ DollarMatchesAt(s, k + 1)

\* sanitize_identifier: the name itself, or ValueError(f"Invalid identifier: {name}")
sanitize_identifier(name) ==
    IF MatchesIdentifierPattern(name)
    THEN [ok |-> TRUE, value |-> name]
    ELSE [ok |-> FALSE, error |-> InvalidIdentifierPrefix \o name]

\* ---------------------------------------------------------- text helpers

\* str.lower()
LowerText(s) == [i \in 1..Len(s) |-> LowerChar(s[i])]

\* str.upper() on one character
UpperChar(c) ==
    IF c \in LowerLetters
    THEN UpperSeq[CHOOSE i \in 1..26 : LowerSeq[i] = c]
    ELSE c

\* str.upper()
UpperText(s) == [i \in 1..Len(s) |-> UpperChar(s[i])]

\* str.startswith(prefix)
StartsWith(s, prefix) ==
    /\ Len(s) >= Len(prefix)
    /\ SubSeq(s, 1, Len(prefix)) = prefix

\* str.endswith(suffix)
EndsWith(s, suffix) ==
    /\ Len(s) >= Len(suffix)
    /\ SubSeq(s, Len(s) - Len(suffix) + 1, Len(s)) = suffix

\* sep.join(parts)
RECURSIVE JoinText(_, _)
JoinText(parts, sep) ==
    IF parts = <<>> THEN <<>>
    ELSE IF Len(parts) = 1 THEN parts[1]
    ELSE parts[1] \o sep \o JoinText(Tail(parts), sep)

\* str(n) for a non-negative integer
RECURSIVE IntToText(_)
IntToText(n) ==
    LET d == <<"0","1","2","3","4","5","6","7","8","9">>[(n % 10) + 1]
    IN  IF n < 10 THEN <<d>> ELSE Append(IntToText(n \div 10), d)

\* Characters str.strip() removes
Whitespace == {" ", "\t", "\n", "\r"}

RECURSIVE LStrip(_, _)
LStrip(s, chars) ==
    IF s # <<>> /\ s[1] \in chars THEN LStrip(Tail(s), chars) ELSE s

RECURSIVE RStrip(_, _)
RStrip(s, chars) ==
    IF s # <<>> /\ s[Len(s)] \in chars THEN RStrip(SubSeq(s, 1, Len(s) - 1), chars) ELSE s

\* str.strip(chars)
Strip(s, chars) == RStrip(LStrip(s, chars), chars)

\* str.split(sep) for a one-character separator
RECURSIVE SplitOn(_, _)
SplitOn(s, sep) ==
    IF \E i \in 1..Len(s) : s[i] = sep
    THEN LET i == CHOOSE k \in 1..Len(s) : s[k] = sep /\ \A j \in 1..(k - 1) : s[j] # sep
         IN  <<SubSeq(s, 1, i - 1)>> \o SplitOn(SubSeq(s, i + 1, Len(s)), sep)
    ELSE <<s>>

\* str.rsplit(sep, 1)[0]: the text before the last separator, the whole text without one
BeforeLast(s, sep) ==
    IF \E i \in 1..Len(s) : s[i] = sep
    THEN LET i == CHOOSE k \in 1..Len(s) : s[k] = sep /\ \A j \in (k + 1)..Len(s) : s[j] # sep
         IN  SubSeq(s, 1, i - 1)
    ELSE s

\* Python's \w on str: Unicode letters and digits, and the underscore
NonAsciiLetters == {"é"}
IsWordChar(c) == IsIdentPart(c) \/ c \in NonAsciiLetters

\* re.sub(r'[^\w]+', '_', s): every maximal run of non-word characters becomes one "_"
RECURSIVE SubNonWordRuns(_)
SubNonWordRuns(s) ==
    IF s = <<>> THEN <<>>
    ELSE IF IsWordChar(s[1]) THEN <<s[1]>> \o SubNonWordRuns(Tail(s))
    ELSE LET rest == Tail(s)
             n == IF \E k \in 1..Len(rest) : IsWordChar(rest[k])
                  THEN (CHOOSE k \in 1..Len(rest) :
                            IsWordChar(rest[k]) /\ \A j \in 1..(k - 1) : ~IsWordChar(rest[j])) - 1
                  ELSE Len(rest)
         IN  <<"_">> \o SubNonWordRuns(SubSeq(rest, n + 1, Len(rest)))

\* sanitize_table_name
sanitize_table_name(filename) ==
    LowerText(Strip(SubNonWordRuns(BeforeLast(filename, ".")), {"_"}))

\* sanitize_column_name
sanitize_column_name(col_name) ==
    LowerText(Strip(SubNonWordRuns(col_name), {"_"}))

\* ------------------------------------------------- float(val) of the builder

\* digit (["_"] digit)*
IsDigitPart(s) ==
    /\ s # <<>>
    /\ \A i \in 1..Len(s) : s[i] \in Digits \cup {"_"}
    /\ s[1] \in Digits /\ s[Len(s)] \in Digits
    /\ \A i \in 1..(Len(s) - 1) : ~(s[i] = "_" /\ s[i + 1] = "_")

DropSign(s) == IF s # <<>> /\ s[1] \in {"+", "-"} THEN Tail(s) ELSE s

\* digitpart ["." [digitpart]] | "." digitpart
IsMantissa(s) ==
    LET parts == SplitOn(s, ".")
    IN  \/ Len(parts) = 1 /\ IsDigitPart(parts[1])
        \/ /\ Len(parts) = 2
           /\ \/ IsDigitPart(parts[1]) /\ (parts[2] = <<>> \/ IsDigitPart(parts[2]))
              \/ parts[1] = <<>> /\ IsDigitPart(parts[2])

IsFloatNumber(s) ==
    LET low == LowerText(s)
        parts == SplitOn(low, "e")
    IN  \/ Len(parts) = 1 /\ IsMantissa(parts[1])
        \/ Len(parts) = 2 /\ IsMantissa(parts[1]) /\ IsDigitPart(DropSign(parts[2]))

\* float(val) succeeds: surrounding whitespace is ignored, then an optional sign and
\* either inf, infinity, nan (any case) or a decimal number with optional exponent
FloatParses(val) ==
    LET body == DropSign(Strip(val, Whitespace))
    IN  \/ LowerText(body) \in {<<"i","n","f">>, <<"n","a","n">>,
                                <<"i","n","f","i","n","i","t","y">>}
        \/ IsFloatNumber(body)

\* ------------------------------------------------------ uploaded files

\* A value that is no text: Python's None, a missing key, a widget that is not rendered
Absent == <<"absent">>

\* The metadata rows list_files returns for the session's user, with the header row
\* of each stored file
FileOrders == [file_name |-> <<"o","r","d","e","r","s",".","c","s","v">>, headers |-> <<<<"i","d">>, <<"r","e","g","i","o","n">>, <<"t","o","t","a","l">>>>]
FileUsers  == [file_name |-> <<"u","s","e","r","s",".","c","s","v">>, headers |-> <<<<"i","d">>, <<"N","a","m","e">>>>]
FileItems  == [file_name |-> <<"i","t","e","m","s",".","c","s","v">>, headers |-> <<<<"I","D">>, <<"n","a","m","e">>>>]
File2024   == [file_name |-> <<"2","0","2","4",".","c","s","v">>, headers |-> <<<<"N","a","m","e">>, <<"1","s","t">>>>]

FileNotes  == [file_name |-> <<"n","o","t","e","s",".","c","s","v">>, headers |-> <<<<"N","o","n","e">>, <<"i","d">>>>]

Files == {FileOrders, FileUsers, FileItems, File2024}

\* Every file of the store
StoredFiles == Files \cup {FileNotes}

\* load_file_as_table for one file object: the {table_name: columns} mapping it returns,
\* as a sequence of at most one entry. url_ok: get_signed_url returned a URL;
\* parse_ok: pandas read the file.


\* A column label that is no str (pandas gives a number for a numeric header cell of a
\* spreadsheet); re.sub raises TypeError on it
NotText == <<"not a str">>

\* One element of file_objs together with what the collaborators do for it.
\* object: "dict" with the keys file_name and full_path, or "invalid";
\* url: get_signed_url returns a URL ("url"), returns None ("none") or raises ("raises");
\* parse: pandas reads the file ("ok") or raises ("raises")
NoFile == [file_name |-> <<>>, headers |-> <<>>]
InvalidObject == [object |-> "invalid", file |-> NoFile, url |-> "url", parse |-> "ok"]
LoadCase(f, url, parse) == [object |-> "dict", file |-> f, url |-> url, parse |-> parse]

\* What one pass of the loop of load_file_as_table does
Skipped(warning, parser) ==
    [tables |-> <<>>, warnings |-> <<warning>>, raised |-> FALSE, parser |-> parser]

\* Lines 72-77: the column names are sanitised, then the table is stored; any
\* exception of the try block becomes a warning
LoadParsed(c, parser) ==
    LET file_name == c.file.file_name
        headers == c.file.headers
    IN  IF c.parse = "raises"
        THEN Skipped(<<"E","r","r","o","r"," ","l","o","a","d","i","n","g"," ">> \o file_name \o <<":"," ","E","r","r","o","r"," ","t","o","k","e","n","i","z","i","n","g"," ","d","a","t","a">>, parser)
        ELSE IF \E i \in 1..Len(headers) : headers[i] = NotText
        THEN Skipped(<<"E","r","r","o","r"," ","l","o","a","d","i","n","g"," ">> \o file_name \o <<":"," ","e","x","p","e","c","t","e","d"," ","s","t","r","i","n","g"," ","o","r"," ","b","y","t","e","s","-","l","i","k","e"," ","o","b","j","e","c","t">>,
                     parser)
        ELSE [tables |-> <<[name |-> sanitize_table_name(file_name),
                            columns |-> [i \in 1..Len(headers) |->
                                            sanitize_column_name(headers[i])]]>>,
              warnings |-> <<>>, raised |-> FALSE, parser |-> parser]

\* Lines 50-77 for one element: raised is an exception that leaves load_file_as_table
LoadFile(c) ==
    LET file_name == c.file.file_name
    IN  IF c.object # "dict"
        THEN Skipped(<<"I","n","v","a","l","i","d"," ","f","i","l","e"," ","o","b","j","e","c","t",":"," ","N","o","n","e">>, "none")
        ELSE IF c.url = "raises"
        THEN [tables |-> <<>>, warnings |-> <<>>, raised |-> TRUE, parser |-> "none"]
        ELSE IF c.url = "none"
        THEN Skipped(<<"C","o","u","l","d"," ","n","o","t"," ","g","e","t"," ","U","R","L"," ","f","o","r"," ">> \o file_name, "none")
        ELSE IF EndsWith(file_name, <<".","c","s","v">>)
        THEN LoadParsed(c, "read_csv")
        ELSE IF EndsWith(file_name, <<".","x","l","s">>) \/ EndsWith(file_name, <<".","x","l","s","x">>)
        THEN LoadParsed(c, "read_excel")
        ELSE Skipped(<<"U","n","s","u","p","p","o","r","t","e","d"," ","f","i","l","e"," ","f","o","r","m","a","t",":"," ">> \o file_name, "none")

\* load_file_as_table for one file object: the {table_name: columns} mapping it returns,
\* as a sequence of at most one entry. url_ok: get_signed_url returned a URL;
\* parse_ok: pandas read the file.
load_file_as_table(file_obj, url_ok, parse_ok) ==
    LoadFile(LoadCase(file_obj, IF url_ok THEN "url" ELSE "none",
                      IF parse_ok THEN "ok" ELSE "raises")).tables

\* ------------------------------------------------- file_sanitizer.py

\* re.sub(r'[^a-zA-Z0-9]', '_', s)
SubNonAlnum(s) ==
    [i \in 1..Len(s) |-> IF s[i] \in LowerLetters \cup UpperLetters \cup Digits
                         THEN s[i] ELSE "_"]

\* re.sub(r'_{2,}', '_', s)
RECURSIVE CollapseUnderscores(_)
CollapseUnderscores(s) ==
    IF Len(s) < 2 THEN s
    ELSE IF s[1] = "_" /\ s[2] = "_" THEN CollapseUnderscores(Tail(s))
    ELSE <<s[1]>> \o CollapseUnderscores(Tail(s))

\* Lines 21-22 (and 10-11)
CleanName(s) == LowerText(Strip(CollapseUnderscores(SubNonAlnum(s)), {"_"}))

\* str.rsplit('.', 1)[1]: the text after the last "."
RECURSIVE AfterLast(_, _)
AfterLast(s, sep) ==
    IF \E i \in 1..Len(s) : s[i] = sep THEN AfterLast(Tail(s), sep) ELSE s

\* sanitize_filename: name and extension are the two parts of rsplit('.', 1); the
\* unpacking raises ValueError when the file name has no "."
sanitize_filename(filename) ==
    IF \A i \in 1..Len(filename) : filename[i] # "."
    THEN [ok |-> FALSE, name |-> <<>>]
    ELSE [ok |-> TRUE,
          name |-> CleanName(BeforeLast(filename, ".")) \o <<".">>
                       \o LowerText(AfterLast(filename, "."))]

\* Lines 23-27: the first free name among clean_1, clean_2, ...
FreeName(clean, seen) ==
    IF clean \notin seen THEN clean
    ELSE LET i == CHOOSE k \in 1..(Cardinality(seen) + 1) :
                      /\ (clean \o <<"_">> \o IntToText(k)) \notin seen
                      /\ \A j \in 1..(k - 1) : (clean \o <<"_">> \o IntToText(j)) \in seen
         IN  clean \o <<"_">> \o IntToText(i)

RECURSIVE CleanColumns(_, _, _)
CleanColumns(columns, seen, clean_columns) ==
    IF columns = <<>> THEN clean_columns
    ELSE LET clean == FreeName(CleanName(columns[1]), seen)
         IN  CleanColumns(Tail(columns), seen \cup {clean}, Append(clean_columns, clean))

\* sanitize_column_names(df): the new df.columns
sanitize_column_names(columns) == CleanColumns(columns, {}, <<>>)

\* ------------------------------------------------- file_manager.py: the preview

\* parse_file_to_dataframe: the (df, error) pair, df as its columns
parse_file_to_dataframe(c) ==
    LET filename == c.file.file_name
        headers == c.file.headers
        parser == IF EndsWith(filename, <<".","c","s","v">>) THEN "read_csv"
                  ELSE IF EndsWith(filename, <<".","x","l","s">>) \/ EndsWith(filename, <<".","x","l","s","x">>)
                  THEN "read_excel" ELSE "none"
    IN  IF filename = <<>> \/ parser = "none"
        THEN [ok |-> FALSE, df |-> <<>>, error |-> <<"U","n","s","u","p","p","o","r","t","e","d"," ","f","i","l","e"," ","t","y","p","e">>,
              parser |-> "none"]
        ELSE IF c.parse = "raises"
        THEN [ok |-> FALSE, df |-> <<>>, error |-> <<"E","r","r","o","r"," ","t","o","k","e","n","i","z","i","n","g"," ","d","a","t","a">>,
              parser |-> parser]
        ELSE IF \E i \in 1..Len(headers) : headers[i] = NotText
        THEN [ok |-> FALSE, df |-> <<>>, error |-> <<"e","x","p","e","c","t","e","d"," ","s","t","r","i","n","g"," ","o","r"," ","b","y","t","e","s","-","l","i","k","e"," ","o","b","j","e","c","t">>,
              parser |-> parser]
        ELSE [ok |-> TRUE, df |-> sanitize_column_names(headers), error |-> <<>>,
              parser |-> parser]

\* ------------------------------------------------- query_builder.py: tables

\* dict[key] = value on a dict kept as a sequence of entries in insertion order
DictPut(d, entry) ==
    IF \E i \in 1..Len(d) : d[i].name = entry.name
    THEN [i \in 1..Len(d) |-> IF d[i].name = entry.name THEN entry ELSE d[i]]
    ELSE Append(d, entry)

\* What load_file_as_table returns for each stored file when its URL is signed and
\* pandas reads it (the same in every run, so it is computed once)
Loaded == [f \in StoredFiles |-> load_file_as_table(f, TRUE, TRUE)]

\* The loop over selected_files that fills table_dataframes and columns_dict
RECURSIVE RegisterTables(_, _)
RegisterTables(selected, acc) ==
    IF selected = <<>> THEN acc
    ELSE RegisterTables(Tail(selected),
                        IF Loaded[selected[1]] = <<>> THEN acc
                        ELSE DictPut(acc, Loaded[selected[1]][1]))

\* The same loop when the collaborators may fail: the tables registered, the warnings
\* shown and the parser used for each file; an exception that leaves
\* load_file_as_table ends the run
NothingLoaded == [tables |-> <<>>, warnings |-> <<>>, raised |-> FALSE, parsers |-> <<>>]

RECURSIVE LoadSelected(_, _)
LoadSelected(cases, acc) ==
    IF cases = <<>> THEN acc
    ELSE LET loaded == LoadFile(cases[1])
         IN  IF loaded.raised THEN [acc EXCEPT !.raised = TRUE]
             ELSE LoadSelected(Tail(cases),
                               [tables |-> IF loaded.tables = <<>> THEN acc.tables
                                           ELSE DictPut(acc.tables, loaded.tables[1]),
                                warnings |-> acc.warnings \o loaded.warnings,
                                raised |-> FALSE,
                                parsers |-> Append(acc.parsers, loaded.parser)])

\* table_dataframes and columns_dict after the loading loop, as one sequence of
\* [name, columns] entries in insertion order
LoadedTables(selected) == RegisterTables(selected, <<>>)

\* selected_tables = list(table_dataframes.keys())
TableNames(d) == [i \in 1..Len(d) |-> d[i].name]

SelectedTables(selected) == TableNames(LoadedTables(selected))

SeqToSet(s) == {s[i] : i \in 1..Len(s)}

\* The iteration order of a Python set of these strings. CPython fixes it for the life
\* of the process; the model fixes one order that differs from the insertion order.
HashOrder == <<<<"t","o","t","a","l">>, <<"i","d">>, <<"n","a","m","e">>, <<"r","e","g","i","o","n">>, <<"1","s","t">>, <<"n","o","n","e">>>>

\* list(some_set)
RECURSIVE ListOfSet(_, _)
ListOfSet(S, order) ==
    IF order = <<>> THEN <<>>
    ELSE (IF order[1] \in S THEN <<order[1]>> ELSE <<>>) \o ListOfSet(S, Tail(order))

\* all_columns = list({col for cols in columns_dict.values() for col in cols})
ColumnsIn(d) == ListOfSet(UNION {SeqToSet(d[i].columns) : i \in 1..Len(d)}, HashOrder)

AllColumns(selected) == ColumnsIn(LoadedTables(selected))

\* lst[:n]
FirstN(lst, n) == SubSeq(lst, 1, IF Len(lst) < n THEN Len(lst) ELSE n)

\* all_columns[:5], the default of the "Columns to display" multiselect
DefaultColumns(all_columns) == FirstN(all_columns, 5)

\* common_cols = list(set(columns_dict[t1]) & set(columns_dict[t2]))
CommonCols(e1, e2) == ListOfSet(SeqToSet(e1.columns) \cap SeqToSet(e2.columns), HashOrder)

\* ----------------------------------------- query_builder.py: SQL generation

AggregateFunctions == {<<"C","O","U","N","T">>, <<"S","U","M">>, <<"A","V","G">>, <<"M","I","N">>, <<"M","A","X">>}

JoinOps == {<<"I","N","N","E","R"," ","J","O","I","N">>, <<"L","E","F","T"," ","J","O","I","N">>, <<"R","I","G","H","T"," ","J","O","I","N">>, <<"F","U","L","L"," ","J","O","I","N">>, <<"C","R","O","S","S"," ","J","O","I","N">>}

NullOps == {<<"I","S"," ","N","U","L","L">>, <<"I","S"," ","N","O","T"," ","N","U","L","L">>}

CompareOps == {<<"=">>, <<"!","=">>, <<">">>, <<"<">>, <<">","=">>, <<"<","=">>}

FilterOps == CompareOps \cup {<<"L","I","K","E">>, <<"I","N">>} \cup NullOps

NoneChoice == <<"N","o","n","e">>

OrderDirections == {<<"A","S","C">>, <<"D","E","S","C">>}

\* The {} that the join loop appends before it assigns the entry
EmptyJoin ==
    [empty |-> TRUE, left_table |-> Absent, right_table |-> Absent,
     col |-> Absent, operator |-> Absent]

NoError == [type |-> "none", message |-> <<>>]

\* aggregate_selection: the entries of agg_conditions with a column and a function,
\* a later entry for the same column replacing an earlier one
AggregateSelection(aggs) ==
    SelectSeq(aggs, LAMBDA a : a.column # Absent /\ a.function # Absent)

InAggregate(selection, col) == \E i \in 1..Len(selection) : selection[i].column = col

AggregateOf(selection, col) ==
    LET i == CHOOSE k \in 1..Len(selection) :
                 /\ selection[k].column = col
                 /\ \A j \in (k + 1)..Len(selection) : selection[j].column # col
    IN  selection[i].function

\* One entry of select_parts
SelectPart(selection, col) ==
    IF selection # <<>> /\ InAggregate(selection, col)
    THEN LET func == AggregateOf(selection, col)
         IN  func \o <<"(">> \o col \o <<")"," ","A","S"," ">> \o LowerText(func) \o <<"_">> \o col
    ELSE col

\* A faulty variant of GroupByCols: every selected column is grouped by
GroupByEveryColumn(selection, selected_columns) ==
    IF selection = <<>> THEN <<>> ELSE selected_columns

\* group_by_cols
GroupByCols(selection, selected_columns) ==
    IF selection = <<>> THEN <<>>
    ELSE SelectSeq(selected_columns, LAMBDA c : ~InAggregate(selection, c))

\* One join of the FROM clause: f" {op} {rt} ON {lt}.{col} = {rt}.{col}"
JoinClause(jc) ==
    <<" ">> \o jc.operator \o <<" ">> \o jc.right_table \o <<" ","O","N"," ">>
        \o jc.left_table \o <<".">> \o jc.col \o <<" ","="," ">> \o jc.right_table \o <<".">> \o jc.col

\* A faulty variant of InValues: the parts keep the blanks around them
InValuesUntrimmed(val) ==
    LET parts == SplitOn(val, ",")
    IN  JoinText([i \in 1..Len(parts) |-> <<"'">> \o parts[i] \o <<"'">>], <<","," ">>)

\* The values of an IN condition: ", ".join(f"'{v.strip()}'" for v in val.split(","))
InValues(val) ==
    LET parts == SplitOn(val, ",")
    IN  JoinText([i \in 1..Len(parts) |-> <<"'">> \o Strip(parts[i], Whitespace) \o <<"'">>], <<","," ">>)

\* A faulty variant of ComparisonClause: the value is quoted whatever it is
ComparisonClauseQuoted(cond) ==
    cond.column \o <<" ">> \o cond.operator \o <<" ","'">> \o cond.value \o <<"'">>

\* The entry for a comparison operator: float(val) decides whether the value is quoted
ComparisonClause(cond) ==
    IF FloatParses(cond.value)
    THEN cond.column \o <<" ">> \o cond.operator \o <<" ">> \o cond.value
    ELSE cond.column \o <<" ">> \o cond.operator \o <<" ","'">> \o cond.value \o <<"'">>

\* One entry of where_clauses
WhereClause(cond) ==
    IF cond.operator \in NullOps THEN cond.column \o <<" ">> \o cond.operator
    ELSE IF cond.operator = <<"I","N">> THEN cond.column \o <<" ","I","N"," ","(">> \o InValues(cond.value) \o <<")">>
    ELSE IF cond.operator = <<"L","I","K","E">> THEN cond.column \o <<" ","L","I","K","E"," ","'","%">> \o cond.value \o <<"%","'">>
    ELSE ComparisonClause(cond)

\* The names the generation passes to sanitize_identifier, and the keys it reads from
\* a join entry, in the order the statements run
RECURSIVE JoinLookups(_)
JoinLookups(joins) ==
    IF joins = <<>> THEN <<>>
    ELSE LET jc == joins[1]
         IN  (IF jc.empty THEN <<[kind |-> "key", name |-> <<"l","e","f","t","_","t","a","b","l","e">>]>>
              ELSE <<[kind |-> "identifier", name |-> jc.left_table],
                     [kind |-> "identifier", name |-> jc.right_table],
                     [kind |-> "identifier", name |-> jc.col]>>)
             \o JoinLookups(Tail(joins))

\* A faulty variant of Lookups: the order column is not passed to sanitize_identifier
LookupsWithoutOrderColumn(m) ==
    <<[kind |-> "identifier", name |-> m.selected_tables[1]]>>
    \o [i \in 1..Len(m.selected_columns) |->
            [kind |-> "identifier", name |-> m.selected_columns[i]]]
    \o JoinLookups(m.join_conditions)
    \o [i \in 1..Len(m.conditions) |->
            [kind |-> "identifier", name |-> m.conditions[i].column]]

Lookups(m) ==
    <<[kind |-> "identifier", name |-> m.selected_tables[1]]>>
    \o [i \in 1..Len(m.selected_columns) |->
            [kind |-> "identifier", name |-> m.selected_columns[i]]]
    \o JoinLookups(m.join_conditions)
    \o [i \in 1..Len(m.conditions) |->
            [kind |-> "identifier", name |-> m.conditions[i].column]]
    \o (IF m.order_col # NoneChoice
        THEN <<[kind |-> "identifier", name |-> m.order_col]>> ELSE <<>>)

LookupFails(l) ==
    IF l.kind = "key" THEN TRUE ELSE ~sanitize_identifier(l.name).ok

\* The exception a failing lookup raises
LookupError(l) ==
    IF l.kind = "key" THEN [type |-> "KeyError", message |-> l.name]
    ELSE [type |-> "ValueError", message |-> sanitize_identifier(l.name).error]

\* A faulty variant of SelectList: the parts are joined by a comma alone
SelectListWithoutBlank(select_parts) ==
    IF select_parts # <<>> THEN JoinText(select_parts, <<",">>) ELSE <<"*">>

\* The select list: ', '.join(select_parts) if select_parts else '*'
SelectList(select_parts) ==
    IF select_parts # <<>> THEN JoinText(select_parts, <<","," ">>) ELSE <<"*">>

\* A faulty variant of OrderByClause: the clause is emitted whatever the choice
OrderByAlways(order_col, order_dir) ==
    <<" ","O","R","D","E","R"," ","B","Y"," ">> \o order_col \o <<" ">> \o order_dir

\* The ORDER BY clause: emitted unless "None" is chosen
OrderByClause(order_col, order_dir) ==
    IF order_col # NoneChoice
    THEN <<" ","O","R","D","E","R"," ","B","Y"," ">> \o order_col \o <<" ">> \o order_dir
    ELSE <<>>

\* f" LIMIT {limit}"
LimitClause(limit) == <<" ","L","I","M","I","T"," ">> \o IntToText(limit)

\* The text of the query when no lookup fails
QueryText(m) ==
    LET selection == AggregateSelection(m.agg_conditions)
        select_parts == [i \in 1..Len(m.selected_columns) |->
                            SelectPart(selection, m.selected_columns[i])]
        group_by_cols == GroupByCols(selection, m.selected_columns)
    IN  <<"S","E","L","E","C","T"," ">>
        \o SelectList(select_parts)
        \o <<" ","F","R","O","M"," ">> \o m.selected_tables[1]
        \o JoinText([i \in 1..Len(m.join_conditions) |-> JoinClause(m.join_conditions[i])],
                    <<>>)
        \o (IF m.conditions # <<>>
            THEN <<" ","W","H","E","R","E"," ">> \o JoinText([i \in 1..Len(m.conditions) |->
                                            WhereClause(m.conditions[i])], <<" ","A","N","D"," ">>)
            ELSE <<>>)
        \o (IF group_by_cols # <<>> THEN <<" ","G","R","O","U","P"," ","B","Y"," ">> \o JoinText(group_by_cols, <<","," ">>)
            ELSE <<>>)
        \o OrderByClause(m.order_col, m.order_dir)
        \o LimitClause(m.limit)

\* The outcome of the generation given the lookups it makes
GenerateWith(m, lookups) ==
    IF \A i \in 1..Len(lookups) : ~LookupFails(lookups[i])
    THEN [ok |-> TRUE, query |-> QueryText(m), error |-> NoError]
    ELSE [ok |-> FALSE, query |-> Absent,
          error |-> LookupError(lookups[CHOOSE i \in 1..Len(lookups) :
                                            /\ LookupFails(lookups[i])
                                            /\ \A j \in 1..(i - 1) : ~LookupFails(lookups[j])])]

\* SQL generation for the model m (selected_tables, selected_columns, agg_conditions,
\* join_conditions, conditions, order_col, order_dir, limit): the query text, or the
\* exception of the first statement that raises
GenerateSQL(m) == GenerateWith(m, Lookups(m))

\* ------------------------------------------------ history.py, notifications.py

HistoryCap == 100

NotificationCap == 20

\* lst[-n:]
LastN(lst, n) == IF Len(lst) > n THEN SubSeq(lst, Len(lst) - n + 1, Len(lst)) ELSE lst

\* A faulty variant of add_to_history: the entry never carries the error
AddToHistoryWithoutError(hist, action_type, content, error) ==
    LastN(Append(hist, [action_type |-> action_type, content |-> content,
                           error |-> Absent]),
          HistoryCap)

\* add_to_history that keeps the oldest entries at the cap
AddToHistoryKeepingOldest(hist, action_type, content, error) ==
    FirstN(Append(hist, [action_type |-> action_type, content |-> content,
                            error |-> error]),
           HistoryCap)

\* add_to_history (the timestamp of the entry is the wall clock and is left out)
add_to_history(hist, action_type, content, error) ==
    LastN(Append(hist, [action_type |-> action_type, content |-> content,
                           error |-> error]),
          HistoryCap)

\* clear_history
clear_history(hist) == <<>>

\* add_notification (likewise without its time)
add_notification(notes, title, message, level) ==
    LastN(Append(notes, [title |-> title, message |-> message,
                                 level |-> level, read |-> FALSE]),
          NotificationCap)

\* ------------------------------------------ query_builder.py: one script run

\* What a run shows: the generated SQL (st.code), the uncaught exception that ended the
\* run, the result table and download button, the st.error/st.success/st.warning
\* message, and the texts passed to con.execute
NoOutput ==
    [query |-> Absent, error |-> NoError, result_shown |-> FALSE, result_of |-> Absent,
     download |-> FALSE, message |-> [level |-> "none", text |-> <<>>],
     engine_calls |-> <<>>]

\* No button clicked in the run
NoEvent == [click |-> "none", index |-> 0, cond |-> Absent, engine |-> Absent]

DefaultLimit == 100

\* The widgets of the page in their initial state, for the given file selection
FreshWidgets(selected_files) ==
    [selected_files |-> selected_files, selected_columns |-> <<>>,
     agg_enabled |-> FALSE, join_widgets |-> <<>>,
     order_col |-> NoneChoice, order_dir |-> <<"A","S","C">>, limit |-> DefaultLimit]

\* list.pop(i), i counted from 0
Pop(lst, i) == SubSeq(lst, 1, i) \o SubSeq(lst, i + 2, Len(lst))

\* The aggregate section. Each entry takes the values of its two selectboxes: the
\* column stays when it is still one of selected_columns and is the first of them
\* otherwise (None with no column selected), the function stays or is the first one.
AggSection(agg_enabled, aggs, selected_columns, ev) ==
    IF ~agg_enabled THEN [agg_conditions |-> <<>>, rerun |-> FALSE]
    ELSE LET added == IF ev.click = "add_agg"
                      THEN Append(aggs, [column |-> Absent, function |-> Absent])
                      ELSE aggs
             col_selected(c) ==
                 IF selected_columns = <<>> THEN Absent
                 ELSE IF c \in SeqToSet(selected_columns) THEN c ELSE selected_columns[1]
             func_selected(f) == IF f \in AggregateFunctions THEN f ELSE <<"C","O","U","N","T">>
             refreshed == [i \in 1..Len(added) |->
                          [column |-> col_selected(added[i].column),
                           function |-> func_selected(added[i].function)]]
         IN  IF ev.click = "rm_agg"
             THEN [agg_conditions |-> Pop(refreshed, ev.index), rerun |-> TRUE]
             ELSE [agg_conditions |-> refreshed, rerun |-> FALSE]

\* A join selectbox pair that is not rendered
NoJoinWidget == [rendered |-> FALSE, options |-> <<>>, col |-> Absent, operator |-> Absent]

\* One pass of the join loop for pair i (counted from 0) with its common_cols: the
\* pair is skipped without a common column; otherwise its two selectboxes are read
\* (a value stays while the selectbox is rendered with the same options, and is the
\* first option otherwise), {} is appended when the list is not longer than i, and
\* entry i is assigned, which raises IndexError when the list is still too short.
JoinPair(i, t1, t2, common_cols, prev, joins) ==
    LET join_col == IF prev.rendered /\ prev.options = common_cols
                    THEN prev.col ELSE common_cols[1]
        join_op == IF prev.rendered THEN prev.operator ELSE <<"I","N","N","E","R"," ","J","O","I","N">>
        appended == IF Len(joins) <= i THEN Append(joins, EmptyJoin) ELSE joins
    IN  IF common_cols = <<>>
        THEN [join_conditions |-> joins, widget |-> NoJoinWidget, crashed |-> FALSE]
        ELSE [join_conditions |->
                  IF i + 1 > Len(appended) THEN appended
                  ELSE [appended EXCEPT ![i + 1] =
                            [empty |-> FALSE, left_table |-> t1, right_table |-> t2,
                             col |-> join_col, operator |-> join_op]],
              widget |-> [rendered |-> TRUE, options |-> common_cols,
                          col |-> join_col, operator |-> join_op],
              crashed |-> i + 1 > Len(appended)]

\* The join loop from pair i on, d being the loaded tables. Returns the
\* join_conditions it leaves in the session, the widgets it rendered, and whether it
\* ended in the IndexError.
RECURSIVE JoinLoop(_, _, _, _, _)
JoinNext(i, d, prev_widgets, rendered_widgets, pair) ==
    IF pair.crashed
    THEN [join_conditions |-> pair.join_conditions,
          join_widgets |-> Append(rendered_widgets, pair.widget), crashed |-> TRUE]
    ELSE JoinLoop(i + 1, d, prev_widgets, pair.join_conditions,
                  Append(rendered_widgets, pair.widget))

JoinLoop(i, d, prev_widgets, joins, rendered_widgets) ==
    IF i > Len(d) - 2
    THEN [join_conditions |-> joins, join_widgets |-> rendered_widgets, crashed |-> FALSE]
    ELSE JoinNext(i, d, prev_widgets, rendered_widgets,
                  JoinPair(i, d[i + 1].name, d[i + 2].name, CommonCols(d[i + 1], d[i + 2]),
                           IF i + 1 <= Len(prev_widgets) THEN prev_widgets[i + 1]
                           ELSE NoJoinWidget,
                           joins))

\* The join section
JoinSection(d, prev_widgets, joins) ==
    IF Len(d) > 1
    THEN JoinLoop(0, d, prev_widgets, joins, <<>>)
    ELSE [join_conditions |-> <<>>, join_widgets |-> <<>>, crashed |-> FALSE]

\* A faulty variant of ConditionAccepted: nothing is rejected
ConditionAcceptedAlways(cond) == TRUE

\* The "Add Condition" click: the condition is appended unless a value is required
\* and empty
ConditionAccepted(cond) == cond.operator \in NullOps \/ cond.value # <<>>

\* The try block of the Run Query click when con.execute(query) returns: the result
\* table and its download button, then the history entry and the notification
QuerySucceeded(w, s, query) ==
    [w |-> w, rerun |-> FALSE,
     s |-> [s EXCEPT
            !.history = add_to_history(@, "query_executed", query, Absent),
            !.notifications = add_notification(@, "Query Success",
                                   <<"SQL query ran successfully.">>, "success")],
     out |-> [NoOutput EXCEPT
              !.query = query, !.engine_calls = <<query>>,
              !.result_shown = TRUE, !.result_of = query, !.download = TRUE,
              !.message = [level |-> "success",
                           text |-> <<"Query executed successfully.">>]]]

\* A faulty variant of QueryFailed: the query is passed to the engine a second time
\* and what that returns is shown
QueryFailedRetrying(w, s, query, message) ==
    [w |-> w, rerun |-> FALSE,
     s |-> [s EXCEPT
            !.history = add_to_history(@, "query_failed", query, <<message>>),
            !.notifications = add_notification(@, "Query Failed",
                                   <<"Query error: ", message>>, "error")],
     out |-> [NoOutput EXCEPT
              !.query = query, !.engine_calls = <<query, query>>,
              !.result_shown = TRUE, !.result_of = query,
              !.message = [level |-> "error", text |-> <<"Query failed: ", message>>]]]

\* The except block of the Run Query click: con.execute(query) raised with message
QueryFailed(w, s, query, message) ==
    [w |-> w, rerun |-> FALSE,
     s |-> [s EXCEPT
            !.history = add_to_history(@, "query_failed", query, <<message>>),
            !.notifications = add_notification(@, "Query Failed",
                                   <<"Query error: ", message>>, "error")],
     out |-> [NoOutput EXCEPT
              !.query = query, !.engine_calls = <<query>>,
              !.message = [level |-> "error", text |-> <<"Query failed: ", message>>]]]

\* The Run Query click: one con.execute(query), then the history entry and the
\* notification of its outcome. engine is the engine's answer to that text.
RunQuery(w, s, query, engine) ==
    IF engine.ok THEN QuerySucceeded(w, s, query)
    ELSE QueryFailed(w, s, query, engine.message)

\* A faulty variant of RunGenerated: every run that generates SQL executes it
RunGeneratedExecuting(w, s, ev, sql) ==
    IF ~sql.ok
    THEN [w |-> w, s |-> s, rerun |-> FALSE, out |-> [NoOutput EXCEPT !.error = sql.error]]
    ELSE RunQuery(w, s, sql.query, [ok |-> TRUE, message |-> ""])

\* The end of a run, from the generated SQL on: an exception of the generation ends
\* the run before anything is shown; otherwise the SQL is shown and, on a Run Query
\* click, executed.
RunGenerated(w, s, ev, sql) ==
    IF ~sql.ok
    THEN [w |-> w, s |-> s, rerun |-> FALSE, out |-> [NoOutput EXCEPT !.error = sql.error]]
    ELSE IF ev.click = "run"
    THEN RunQuery(w, s, sql.query, ev.engine)
    ELSE [w |-> w, s |-> s, rerun |-> FALSE,
          out |-> [NoOutput EXCEPT
                   !.query = sql.query,
                   !.message = IF ev.click = "add_cond"
                               THEN [level |-> "warning",
                                     text |-> <<"Enter value for the condition.">>]
                               ELSE NoOutput.message]]

\* A faulty variant of QueryModel: the limit also depends on the number of queries run
QueryModelCountingRuns(d, w, s) ==
    [selected_tables |-> TableNames(d), selected_columns |-> w.selected_columns,
     agg_conditions |-> s.agg_conditions, join_conditions |-> s.join_conditions,
     conditions |-> s.conditions, order_col |-> w.order_col,
     order_dir |-> w.order_dir, limit |-> w.limit + Len(s.history)]

\* The model the SQL generation reads
QueryModel(d, w, s) ==
    [selected_tables |-> TableNames(d), selected_columns |-> w.selected_columns,
     agg_conditions |-> s.agg_conditions, join_conditions |-> s.join_conditions,
     conditions |-> s.conditions, order_col |-> w.order_col,
     order_dir |-> w.order_dir, limit |-> w.limit]

\* The run from the WHERE section on: Remove and an accepted Add Condition change
\* the list and end the run in st.rerun()
RunConditions(d, w, s, ev) ==
    IF ev.click = "rm_cond"
    THEN [w |-> w, s |-> [s EXCEPT !.conditions = Pop(@, ev.index)],
          out |-> NoOutput, rerun |-> TRUE]
    ELSE IF ev.click = "add_cond" /\ ConditionAccepted(ev.cond)
    THEN [w |-> w, s |-> [s EXCEPT !.conditions = Append(@, ev.cond)],
          out |-> NoOutput, rerun |-> TRUE]
    ELSE RunGenerated(w, s, ev, GenerateSQL(QueryModel(d, w, s)))

\* The run after the join section: its IndexError ends the run
RunJoined(d, w, s, ev, join) ==
    IF join.crashed
    THEN [w |-> [w EXCEPT !.join_widgets = join.join_widgets],
          s |-> [s EXCEPT !.join_conditions = join.join_conditions], rerun |-> FALSE,
          out |-> [NoOutput EXCEPT
                   !.error = [type |-> "IndexError",
                              message |-> <<"l","i","s","t"," ","a","s","s","i","g","n","m","e","n","t"," ","i","n","d","e","x"," ","o","u","t"," ","o","f"," ","r","a","n","g","e">>]]]
    ELSE RunConditions(d, [w EXCEPT !.join_widgets = join.join_widgets],
                       [s EXCEPT !.join_conditions = join.join_conditions], ev)

\* The run after the aggregate section: a Remove click ends the run in st.rerun()
RunAggregated(d, w, s, ev, agg) ==
    IF agg.rerun
    THEN [w |-> w, s |-> [s EXCEPT !.agg_conditions = agg.agg_conditions],
          out |-> NoOutput, rerun |-> TRUE]
    ELSE RunJoined(d, w, [s EXCEPT !.agg_conditions = agg.agg_conditions], ev,
                   JoinSection(d, w.join_widgets, s.join_conditions))

\* The run from the column multiselect on: it and the "Order by" selectbox keep their
\* value while their options are the same as in the run before, and start from their
\* default otherwise
RunColumns(d, same_options, all_columns, w, s, ev) ==
    RunAggregated(d,
                  [w EXCEPT !.selected_columns =
                                IF same_options THEN @ ELSE DefaultColumns(all_columns),
                            !.order_col = IF same_options THEN @ ELSE NoneChoice],
                  s, ev,
                  AggSection(w.agg_enabled, s.agg_conditions,
                             IF same_options THEN w.selected_columns
                             ELSE DefaultColumns(all_columns),
                             ev))

\* The run given the tables loaded in the run before (prev_d) and in this one (d): it
\* returns early when no file is selected or no table was loaded
RunLoaded(prev_d, d, w, s, ev) ==
    IF w.selected_files = <<>> \/ d = <<>>
    THEN [w |-> FreshWidgets(w.selected_files), s |-> s, out |-> NoOutput,
          rerun |-> FALSE]
    ELSE RunColumns(d, prev_d # <<>> /\ ColumnsIn(prev_d) = ColumnsIn(d), ColumnsIn(d),
                    w, s, ev)

\* One run of render_query_builder_ui. prev_files is the file selection of the run
\* before (it decides which widgets keep their value), w the widget values the run
\* reads, s the session state, ev the button clicked. Returns the widget values and
\* session state it leaves, what it shows, and whether it ended in st.rerun().
RunScript(prev_files, w, s, ev) ==
    RunLoaded(LoadedTables(prev_files), LoadedTables(w.selected_files), w, s, ev)

\* The run that follows a run ended by st.rerun(), with no button clicked
FollowRerun(files, first) ==
    IF first.rerun THEN RunScript(files, first.w, first.s, NoEvent) ELSE first

\* One interaction: the run the user's action triggers and, when that run ends in
\* st.rerun(), the run that follows it
Interaction(prev_files, w, s, ev) ==
    FollowRerun(w.selected_files, RunScript(prev_files, w, s, ev))

\* ------------------------------------------------ the query builder session

Session ==
    [agg_conditions |-> agg_conditions, join_conditions |-> join_conditions,
     conditions |-> conditions, history |-> history, notifications |-> notifications]

\* A new session: nothing selected, st.session_state empty, nothing shown
FreshSession ==
    /\ widgets = FreshWidgets(<<>>)
    /\ agg_conditions = <<>>
    /\ join_conditions = <<>>
    /\ conditions = <<>>
    /\ history = <<>>
    /\ notifications = <<>>
    /\ shown = NoOutput

\* The start of a session specification: no pure function is under check
InitSession == arg = <<>> /\ ret = NoValue /\ FreshSession

\* The state an interaction leaves
Leaves(r) ==
    /\ widgets' = r.w
    /\ agg_conditions' = r.s.agg_conditions
    /\ join_conditions' = r.s.join_conditions
    /\ conditions' = r.s.conditions
    /\ history' = r.s.history
    /\ notifications' = r.s.notifications
    /\ shown' = r.out
    /\ UNCHANGED <<arg, ret>>

\* The user changes the widgets to w, or the session entry to s, and clicks ev: the
\* script runs and leaves its widget values, session state and display
Interact(w, s, ev) == Leaves(Interaction(widgets.selected_files, w, s, ev))

\* The last run got past the file selection, so the column and aggregate widgets exist
TablesShown == SelectedTables(widgets.selected_files) # <<>>

\* The last run got past the join section, so the condition, order and limit widgets exist
ConditionsShown == TablesShown /\ shown.error.type # "IndexError"

\* The last run showed the generated SQL and the Run Query button
RunButtonShown == shown.query # Absent

\* "Select files to build query from": one more file
SelectFile(f) ==
    /\ f \notin SeqToSet(widgets.selected_files)
    /\ Len(widgets.selected_files) < MaxSelected
    /\ Interact([widgets EXCEPT !.selected_files = Append(@, f)], Session, NoEvent)

\* The same multiselect: one file removed
DeselectFile(f) ==
    /\ f \in SeqToSet(widgets.selected_files)
    /\ Interact([widgets EXCEPT !.selected_files = SelectSeq(@, LAMBDA x : x # f)],
                Session, NoEvent)

\* "Columns to display": one more column
SelectColumn(c) ==
    /\ TablesShown
    /\ c \in SeqToSet(HashOrder)
    /\ c \in SeqToSet(AllColumns(widgets.selected_files))
    /\ c \notin SeqToSet(widgets.selected_columns)
    /\ Interact([widgets EXCEPT !.selected_columns = Append(@, c)], Session, NoEvent)

\* The same multiselect: one column removed
DeselectColumn(c) ==
    /\ TablesShown
    /\ c \in SeqToSet(widgets.selected_columns)
    /\ Interact([widgets EXCEPT !.selected_columns = SelectSeq(@, LAMBDA x : x # c)],
                Session, NoEvent)

\* The "Apply Aggregate Functions" checkbox
ToggleAggregates ==
    /\ TablesShown
    /\ Interact([widgets EXCEPT !.agg_enabled = ~@], Session, NoEvent)

\* The "Add Aggregate Function" button
AddAggregate ==
    /\ TablesShown /\ widgets.agg_enabled
    /\ Len(agg_conditions) < MaxAggregates
    /\ Interact(widgets, Session, [NoEvent EXCEPT !.click = "add_agg"])

\* The column selectbox of aggregate i (counted from 0)
SetAggregateColumn(i, c) ==
    /\ TablesShown /\ widgets.agg_enabled
    /\ i + 1 \in 1..Len(agg_conditions)
    /\ c \in SeqToSet(widgets.selected_columns)
    /\ c # agg_conditions[i + 1].column
    /\ Interact(widgets, [Session EXCEPT !.agg_conditions[i + 1].column = c], NoEvent)

\* The function selectbox of aggregate i
SetAggregateFunction(i, f) ==
    /\ TablesShown /\ widgets.agg_enabled
    /\ i + 1 \in 1..Len(agg_conditions)
    /\ f \in AggregateFunctions
    /\ f # agg_conditions[i + 1].function
    /\ Interact(widgets, [Session EXCEPT !.agg_conditions[i + 1].function = f], NoEvent)

\* The Remove button of aggregate i
RemoveAggregate(i) ==
    /\ TablesShown /\ widgets.agg_enabled
    /\ i + 1 \in 1..Len(agg_conditions)
    /\ Interact(widgets, Session, [NoEvent EXCEPT !.click = "rm_agg", !.index = i])

\* The "Join on column" selectbox of pair i
SetJoinColumn(i, c) ==
    /\ i + 1 \in 1..Len(widgets.join_widgets)
    /\ widgets.join_widgets[i + 1].rendered
    /\ c \in SeqToSet(widgets.join_widgets[i + 1].options)
    /\ c # widgets.join_widgets[i + 1].col
    /\ Interact([widgets EXCEPT !.join_widgets[i + 1].col = c], Session, NoEvent)

\* The "Join type" selectbox of pair i
SetJoinType(i, op) ==
    /\ i + 1 \in 1..Len(widgets.join_widgets)
    /\ widgets.join_widgets[i + 1].rendered
    /\ op \in JoinOps
    /\ op # widgets.join_widgets[i + 1].operator
    /\ Interact([widgets EXCEPT !.join_widgets[i + 1].operator = op], Session, NoEvent)

\* The "Add Condition" button with the column, operator and value chosen above it
AddConditionBelow(cap, c, op, val) ==
    /\ ConditionsShown
    /\ Len(conditions) < cap
    /\ c \in SeqToSet(AllColumns(widgets.selected_files))
    /\ op \in FilterOps
    /\ op \in NullOps => val = <<>>
    /\ Interact(widgets, Session,
                [NoEvent EXCEPT !.click = "add_cond",
                                !.cond = [column |-> c, operator |-> op, value |-> val]])

AddCondition(c, op, val) == AddConditionBelow(MaxConditions, c, op, val)

\* The Remove button of condition i (counted from 0)
RemoveCondition(i) ==
    /\ ConditionsShown
    /\ i + 1 \in 1..Len(conditions)
    /\ Interact(widgets, Session, [NoEvent EXCEPT !.click = "rm_cond", !.index = i])

\* The "Order by" selectbox
SetOrderColumn(c) ==
    /\ ConditionsShown
    /\ c \in {NoneChoice} \cup SeqToSet(AllColumns(widgets.selected_files))
    /\ c # widgets.order_col
    /\ Interact([widgets EXCEPT !.order_col = c], Session, NoEvent)

\* The "Order Direction" selectbox
SetOrderDirection(d) ==
    /\ ConditionsShown
    /\ d \in OrderDirections
    /\ d # widgets.order_dir
    /\ Interact([widgets EXCEPT !.order_dir = d], Session, NoEvent)

\* The "Limit" number input (min_value=1)
SetLimit(n) ==
    /\ ConditionsShown
    /\ n >= 1
    /\ n # widgets.limit
    /\ Interact([widgets EXCEPT !.limit = n], Session, NoEvent)

\* The "Run Query" button; engine is what DuckDB answers to the text it is given
ClickRunQuery(engine) ==
    /\ RunButtonShown
    /\ Len(history) < MaxRuns
    /\ Interact(widgets, Session, [NoEvent EXCEPT !.click = "run", !.engine = engine])

\* The "Order by" selectbox changed and the Run Query button of the page clicked
\* before the run of the change has replaced the page: one run reads both
ChangeOrderAndRun(c, engine) ==
    /\ RunButtonShown
    /\ Len(history) < MaxRuns
    /\ c \in {NoneChoice} \cup SeqToSet(AllColumns(widgets.selected_files))
    /\ c # widgets.order_col
    /\ Interact([widgets EXCEPT !.order_col = c], Session,
                [NoEvent EXCEPT !.click = "run", !.engine = engine])

\* A run that no click or change of the above triggers (the user edits the value
\* box, or reloads the page)
Rerun ==
    /\ widgets.selected_files # <<>>
    /\ Interact(widgets, Session, NoEvent)

\* ------------------------------------- pages/02_Custom_Query.py: Execute Query

\* The try block of the Execute Query handler for a non-blank query: one
\* con.execute(query), the result table only for a text that starts with SELECT, then
\* the history entry and the notification; any exception is reported by st.error
ExecuteCustomQuery(s, query, engine) ==
    IF ~engine.ok
    THEN [s |-> [s EXCEPT
                 !.history = add_to_history(@, "query_failed", query, <<engine.message>>),
                 !.notifications = add_notification(@, "Query Failed",
                                        <<"Error: ", engine.message>>, "error")],
          out |-> [NoOutput EXCEPT
                   !.engine_calls = <<query>>,
                   !.message = [level |-> "error",
                                text |-> <<"Query failed: ", engine.message>>]]]
    ELSE IF StartsWith(UpperText(Strip(query, Whitespace)), <<"S","E","L","E","C","T">>)
    THEN [s |-> [s EXCEPT
                 !.history = add_to_history(@, "query_executed", query, Absent),
                 !.notifications = add_notification(@, "Query Success",
                        <<"Your custom SELECT query executed successfully.">>, "success")],
          out |-> [NoOutput EXCEPT
                   !.engine_calls = <<query>>,
                   !.result_shown = TRUE, !.result_of = query, !.download = TRUE,
                   !.message = [level |-> "success",
                                text |-> <<"Query executed successfully!">>]]]
    ELSE [s |-> [s EXCEPT
                 !.history = add_to_history(@, "query_executed", query, Absent),
                 !.notifications = add_notification(@, "Non-SELECT Query Executed",
                        <<"Your custom SQL query was executed.">>, "success")],
          out |-> [NoOutput EXCEPT
                   !.engine_calls = <<query>>,
                   !.message = [level |-> "success",
                                text |-> <<"Non-SELECT query executed (e.g., CREATE TABLE, INSERT).">>]]]

\* The run of the custom query page on an Execute Query click, with the files selected
\* on that page and the text of its query box: the page stops before the button when
\* no file is selected or no table registered, and the handler stops on a blank query
CustomRun(selected, s, query, engine) ==
    IF selected = <<>> \/ LoadedTables(selected) = <<>>
    THEN [s |-> s, out |-> NoOutput]
    ELSE IF Strip(query, Whitespace) = <<>>
    THEN [s |-> s,
          out |-> [NoOutput EXCEPT
                   !.message = [level |-> "warning",
                                text |-> <<"Please enter a SQL query.">>]]]
    ELSE ExecuteCustomQuery(s, query, engine)

\* What the custom page leaves: the query builder is not rendered while the custom
\* page is, so its widgets start afresh
LeavesCustom(r) ==
    /\ widgets' = FreshWidgets(<<>>)
    /\ agg_conditions' = r.s.agg_conditions
    /\ join_conditions' = r.s.join_conditions
    /\ conditions' = r.s.conditions
    /\ history' = r.s.history
    /\ notifications' = r.s.notifications
    /\ shown' = r.out
    /\ UNCHANGED <<arg, ret>>

\* The "Execute Query" button of the custom query page
ClickExecuteQuery(selected, query, engine) ==
    /\ selected # <<>>
    /\ Len(history) < MaxRuns
    /\ LeavesCustom(CustomRun(selected, Session, query, engine))

\* Texts typed into the custom page's query box
CustomQueries == {<<>>, <<" ">>, <<"s","e","l","e","c","t"," ","1">>, <<"D","R","O","P"," ","t">>}

\* The answers of the engine: a result table, or an error with its message
EngineAnswers ==
    {[ok |-> TRUE, message |-> ""],
     [ok |-> FALSE, message |-> "Parser Error: syntax error"],
     [ok |-> FALSE, message |-> "Catalog Error: table does not exist"]}

\* Values typed into the condition's value box
ConditionValues == {<<>>, <<"1","0","0">>, <<"s","h","i","p","p","e","d">>}

LimitChoices == {1, 50, DefaultLimit}

\* --------- specification: a session that selects files and edits the joins

NextJoins ==
    \/ \E f \in Files : SelectFile(f)
    \/ \E f \in Files : DeselectFile(f)
    \/ \E i \in 0..(MaxSelected - 2), c \in SeqToSet(HashOrder) : SetJoinColumn(i, c)
    \/ \E i \in 0..(MaxSelected - 2), op \in JoinOps : SetJoinType(i, op)
    \/ Rerun

SpecJoins == InitSession /\ [][NextJoins]_vars

\* The tables of the file selection the last run read
CurrentTables == SelectedTables(widgets.selected_files)

\* The last run generated SQL (and showed it)
SqlBuilt == shown.query # Absent

\* C3: whenever SQL is built, no entry of the join list names a left or right table
\* that is not among the currently selected tables.
C3_NoJoinOfDeselectedTable ==
    SqlBuilt =>
        \A i \in 1..Len(join_conditions) :
            /\ ~join_conditions[i].empty
            /\ join_conditions[i].left_table \in SeqToSet(CurrentTables)
            /\ join_conditions[i].right_table \in SeqToSet(CurrentTables)

\* C5: whenever SQL is built with n >= 2 selected tables the join list has exactly
\* n-1 entries and entry i joins the i-th selected table to the (i+1)-th; with one
\* selected table the join list is empty.
C5_JoinsFormTheChain ==
    SqlBuilt =>
        /\ Len(join_conditions) = Len(CurrentTables) - 1
        /\ \A i \in 1..Len(join_conditions) :
            /\ ~join_conditions[i].empty
            /\ join_conditions[i].left_table = CurrentTables[i]
            /\ join_conditions[i].right_table = CurrentTables[i + 1]

\* The text C12 expects for one join entry
ExpectedJoin(jc) ==
    <<" ">> \o jc.operator \o <<" ">> \o jc.right_table \o <<" ","O","N"," ">> \o jc.left_table \o <<".">> \o jc.col
    \o <<" ","="," ">> \o jc.right_table \o <<".">> \o jc.col

\* texts one after the other
RECURSIVE Concatenated(_)
Concatenated(texts) ==
    IF texts = <<>> THEN <<>> ELSE texts[1] \o Concatenated(Tail(texts))

\* The text before the first join of the SQL shown for the session's column selection
SelectFromFirstTable ==
    <<"S","E","L","E","C","T"," ">>
    \o (IF widgets.selected_columns = <<>> THEN <<"*">>
        ELSE Concatenated([i \in 1..Len(widgets.selected_columns) |->
                 (IF i = 1 THEN <<>> ELSE <<","," ">>) \o widgets.selected_columns[i]]))
    \o <<" ","F","R","O","M"," ">> \o CurrentTables[1]

\* C12: the FROM clause names the first selected table and the text
\* " operator rightTable ON leftTable.col = rightTable.col" follows for each join in
\* list order, the i-th join joining the i-th selected table to the (i+1)-th, so that
\* the joins appear in the chain order of the selected tables.
C12_JoinsRenderedInChainOrder ==
    (SqlBuilt /\ conditions = <<>> /\ agg_conditions = <<>>
        /\ widgets.order_col = NoneChoice) =>
        /\ \A i \in 1..Len(join_conditions) : ~join_conditions[i].empty
        /\ shown.query = SelectFromFirstTable
                         \o Concatenated([i \in 1..Len(join_conditions) |->
                                             ExpectedJoin(join_conditions[i])])
                         \o <<" ","L","I","M","I","T"," ">> \o IntToText(widgets.limit)
        /\ \A i \in 1..Len(join_conditions) :
               /\ i < Len(CurrentTables)
               /\ join_conditions[i].left_table = CurrentTables[i]
               /\ join_conditions[i].right_table = CurrentTables[i + 1]

\* C26: for any selection of two or more loaded tables and any earlier session state
\* the update of the join list, and the reading of the list by the SQL generation,
\* ends without an index error and without a missing-key error, also when a pair of
\* consecutive tables has no common column and is skipped.
C26_JoinUpdateNeverRaises ==
    Len(CurrentTables) >= 2 => shown.error.type \notin {"IndexError", "KeyError"}

\* --------- specification: a session that selects files and edits the filters

NextFilters ==
    \/ \E f \in Files : SelectFile(f)
    \/ \E f \in Files : DeselectFile(f)
    \/ \E c \in SeqToSet(HashOrder), op \in FilterOps, val \in ConditionValues :
           AddCondition(c, op, val)
    \/ \E i \in 0..(MaxConditions - 1) : RemoveCondition(i)

SpecFilters == InitSession /\ [][NextFilters]_vars

\* C4: whenever SQL is built, every filter predicate references a column of a
\* currently selected table.
C4_FiltersOfSelectedTables ==
    SqlBuilt =>
        \A i \in 1..Len(conditions) :
            conditions[i].column \in SeqToSet(AllColumns(widgets.selected_files))

\* --------- specification: a session that adds and removes filters of one table

MaxStored == 3

StoredOps == {<<"=">>, <<"L","I","K","E">>, <<"I","S"," ","N","U","L","L">>, <<"I","S"," ","N","O","T"," ","N","U","L","L">>}

StoredValues == {<<>>, <<"a">>, <<" ">>}

AddStoredCondition(op, val) == AddConditionBelow(MaxStored, <<"i","d">>, op, val)

NextConditions ==
    \/ SelectFile(FileOrders)
    \/ DeselectFile(FileOrders)
    \/ \E op \in StoredOps, val \in StoredValues : AddStoredCondition(op, val)
    \/ \E i \in 0..(MaxStored - 1) : RemoveCondition(i)

SpecConditions == InitSession /\ [][NextConditions]_vars

\* C14: after any sequence of Add Condition and Remove clicks every stored filter has
\* an empty value exactly when its operator is IS NULL or IS NOT NULL; an Add
\* Condition click with another operator and an empty value is rejected with a
\* warning and leaves the list unchanged.
C14_EmptyValueOnlyForNullTests ==
    /\ [](\A i \in 1..Len(conditions) :
              conditions[i].value = <<>> <=> conditions[i].operator \in NullOps)
    /\ [][\A op \in StoredOps \ NullOps :
              AddStoredCondition(op, <<>>) =>
                  /\ conditions' = conditions
                  /\ shown'.message = [level |-> "warning",
                                       text |-> <<"Enter value for the condition.">>]]_vars

C14_Witness ==
    /\ conditions = <<[column |-> <<"i","d">>, operator |-> <<"I","S"," ","N","O","T"," ","N","U","L","L">>, value |-> <<>>],
                      [column |-> <<"i","d">>, operator |-> <<"L","I","K","E">>, value |-> <<" ">>]>>
    /\ shown.message.level = "warning"
    /\ shown.query = <<"S","E","L","E","C","T"," ","t","o","t","a","l",","," ","i","d",","," ","r","e","g","i","o","n"," ","F","R","O","M"," ","o","r","d","e","r","s"," ","W","H","E","R","E"," ","i","d"," ","I","S"," ","N","O","T"," ","N","U","L","L"," ","A","N","D"," ","i","d"," ","L","I","K","E"," ","'","%"," ","%","'"," ","L","I","M","I","T"," ","1","0","0">>

\* --------- specification: a session up to its first Run Query click, with at most
\* one filter

\* The columns this session filters on and orders by; it deselects 1st only
BuildColumns == {<<"1","s","t">>, <<"i","d">>}

NextBuild ==
    \/ history = <<>> /\ \E f \in Files : SelectFile(f)
    \/ history = <<>> /\ \E f \in Files : DeselectFile(f)
    \/ history = <<>> /\ DeselectColumn(<<"1","s","t">>)
    \/ history = <<>> /\ conditions = <<>>
           /\ \E c \in BuildColumns : AddCondition(c, <<"=">>, <<"1","0","0">>)
    \/ history = <<>> /\ \E c \in BuildColumns \cup {NoneChoice} : SetOrderColumn(c)
    \/ history = <<>> /\ \E e \in EngineAnswers : ClickRunQuery(e)
    \/ history = <<>> /\ \E c \in BuildColumns, e \in EngineAnswers : ChangeOrderAndRun(c, e)

SpecBuild == InitSession /\ [][NextBuild]_vars

\* The names the model of the last run holds: base table, selected (and aggregated)
\* columns, the tables and column of each join, filter columns, order column
NamesInModel ==
    (IF CurrentTables = <<>> THEN {} ELSE {CurrentTables[1]})
    \cup SeqToSet(widgets.selected_columns)
    \cup UNION {{join_conditions[i].left_table, join_conditions[i].right_table,
                 join_conditions[i].col} :
                i \in {k \in 1..Len(join_conditions) : ~join_conditions[k].empty}}
    \cup {conditions[i].column : i \in 1..Len(conditions)}
    \cup (IF widgets.order_col = NoneChoice THEN {} ELSE {widgets.order_col})

Accepted(name) == sanitize_identifier(name).ok

\* C1: every name in built SQL has been accepted by sanitize_identifier; when a name
\* is rejected the generation aborts with an error that names the rejected value, no
\* SQL is shown and nothing is passed to the engine in that interaction.
C1_OnlyAcceptedNamesReachSQL ==
    /\ SqlBuilt => \A name \in NamesInModel : Accepted(name)
    /\ shown.error.type = "ValueError" =>
           /\ \E name \in NamesInModel :
                  /\ ~Accepted(name)
                  /\ shown.error.message = InvalidIdentifierPrefix \o name
           /\ shown.query = Absent
           /\ shown.engine_calls = <<>>
           /\ ~shown.result_shown

C1_Witness ==
    /\ shown.error = [type |-> "ValueError", message |-> <<"I","n","v","a","l","i","d"," ","i","d","e","n","t","i","f","i","e","r",":"," ","1","s","t">>]
    /\ widgets.order_col = <<"1","s","t">>
    /\ <<"1","s","t">> \notin SeqToSet(widgets.selected_columns)
    /\ \A i \in 1..Len(conditions) : conditions[i].column # <<"1","s","t">>

\* --------- specification: a session that runs queries on both pages

RunFiles == {FileOrders, FileUsers}

\* File selections of the custom query page
CustomSelections == {<<FileOrders>>, <<File2024, FileOrders>>}

NextRun ==
    \/ \E f \in RunFiles : SelectFile(f)
    \/ \E f \in RunFiles : DeselectFile(f)
    \/ \E e \in EngineAnswers : ClickRunQuery(e)
    \/ \E selected \in CustomSelections, q \in CustomQueries, e \in EngineAnswers :
           ClickExecuteQuery(selected, q, e)

SpecRun == InitSession /\ [][NextRun]_vars

\* An Execute Query click on the custom page that passes its text to the engine
ExecutesCustomQuery(e) ==
    \E selected \in CustomSelections, q \in CustomQueries :
        /\ Strip(q, Whitespace) # <<>>
        /\ ClickExecuteQuery(selected, q, e)

\* C6: when the engine rejects the SQL text of a Run Query or Execute Query click, no
\* result table is displayed or offered for download, the engine's error message is
\* shown, and the engine was invoked exactly once for the click.
C6_FailedQueryShowsErrorOnly ==
    [][\A e \in EngineAnswers :
          (~e.ok /\ (ClickRunQuery(e) \/ ExecutesCustomQuery(e))) =>
              /\ ~shown'.result_shown
              /\ shown'.result_of = Absent
              /\ ~shown'.download
              /\ shown'.message = [level |-> "error",
                                   text |-> <<"Query failed: ", e.message>>]
              /\ Len(shown'.engine_calls) = 1]_vars

C6_Witness ==
    /\ shown.message = [level |-> "error",
                        text |-> <<"Query failed: ", "Parser Error: syntax error">>]
    /\ shown.engine_calls = <<<<"S","E","L","E","C","T"," ","t","o","t","a","l",","," ","i","d",","," ","r","e","g","i","o","n"," ","F","R","O","M"," ","o","r","d","e","r","s"," ","L","I","M","I","T"," ","1","0","0">>>>
    /\ ~shown.result_shown /\ ~shown.download

\* The history entry C7 expects for the text passed to the engine and its answer
ExpectedEntry(text, e) ==
    [action_type |-> IF e.ok THEN "query_executed" ELSE "query_failed",
     content |-> text,
     error |-> IF e.ok THEN Absent ELSE <<e.message>>]

\* C7: every click that passes a SQL text to the engine appends exactly one history
\* entry: query_executed without error when the engine succeeded, query_failed with
\* the engine's message when it failed, its content the text passed to the engine.
C7_OneHistoryEntryPerEngineCall ==
    [][\A e \in EngineAnswers :
          (ClickRunQuery(e) \/ ExecutesCustomQuery(e)) =>
              /\ Len(shown'.engine_calls) = 1
              /\ history' = Append(history, ExpectedEntry(shown'.engine_calls[1], e))]_vars

C7_Witness ==
    /\ Len(history) = 2
    /\ history[1] = [action_type |-> "query_executed",
                     content |-> <<"S","E","L","E","C","T"," ","t","o","t","a","l",","," ","i","d",","," ","r","e","g","i","o","n"," ","F","R","O","M"," ","o","r","d","e","r","s"," ","L","I","M","I","T"," ","1","0","0">>,
                     error |-> Absent]
    /\ history[2] = [action_type |-> "query_failed", content |-> <<"D","R","O","P"," ","t">>,
                     error |-> <<"Catalog Error: table does not exist">>]

\* --------- specification: a session that sets order, limit, a filter and aggregates

OrderFiles == {FileOrders, FileNotes}

NextOrder ==
    \/ \E f \in OrderFiles : SelectFile(f)
    \/ \E f \in OrderFiles : DeselectFile(f)
    \/ \E c \in SeqToSet(HashOrder) \cup {NoneChoice} : SetOrderColumn(c)
    \/ \E d \in OrderDirections : SetOrderDirection(d)
    \/ \E n \in LimitChoices \cup {0} : SetLimit(n)
    \/ conditions = <<>> /\ AddCondition(<<"t","o","t","a","l">>, <<">">>, <<"1","0","0">>)
    \/ ToggleAggregates
    \/ AddAggregate

SpecOrder == InitSession /\ [][NextOrder]_vars

\* sub occurs in text
Contains(text, sub) ==
    \E i \in 1..(Len(text) - Len(sub) + 1) : SubSeq(text, i, i + Len(sub) - 1) = sub

\* C13: every built SQL text ends with LIMIT n, n a positive integer (100 unless the
\* user changed it); ORDER BY col ASC|DESC stands immediately before LIMIT if and only
\* if an order column other than the None choice is set.
C13_OrderByAndLimitTail ==
    SqlBuilt =>
        /\ widgets.limit >= 1
        /\ widgets.order_dir \in OrderDirections
        /\ IF widgets.order_col # NoneChoice
           THEN EndsWith(shown.query,
                         <<" ","O","R","D","E","R"," ","B","Y"," ">> \o widgets.order_col \o <<" ">> \o widgets.order_dir
                         \o <<" ","L","I","M","I","T"," ">> \o IntToText(widgets.limit))
           ELSE /\ EndsWith(shown.query, <<" ","L","I","M","I","T"," ">> \o IntToText(widgets.limit))
                /\ ~Contains(shown.query, <<" ","O","R","D","E","R"," ","B","Y"," ">>)

C13_Witness ==
    /\ SqlBuilt
    /\ widgets.order_col = <<"n","o","n","e">>
    /\ widgets.limit = 50
    /\ conditions # <<>>
    /\ shown.query = <<"S","E","L","E","C","T"," ","t","o","t","a","l",","," ","i","d",","," ","r","e","g","i","o","n",","," ","n","o","n","e"," ","F","R","O","M"," ","n","o","t","e","s"," ","I","N","N","E","R"," ","J","O","I","N"," ","o","r","d","e","r","s"," ","O","N"," ","n","o","t","e","s",".","i","d"," ","="," ","o","r","d","e","r","s",".","i","d"," ","W","H","E","R","E"," ","t","o","t","a","l"," ",">"," ","1","0","0"," ","O","R","D","E","R"," ","B","Y"," ","n","o","n","e"," ","D","E","S","C"," ","L","I","M","I","T"," ","5","0">>

\* --------- specification: two sessions of two users, interleaved by the server

\* What belongs to one session: its widget values, its st.session_state and its page
Parked(w, s, out) == [w |-> w, s |-> s, out |-> out]

\* A faulty variant of Resumed: the history is one list of the server process
ResumedWithServerHistory(parked, running) ==
    [parked EXCEPT !.s.history = running.s.history]

\* What a script run of a session finds: st.session_state and the widget values are
\* those of the session the run belongs to
Resumed(parked, running) == parked

\* The files list_files returns for the user of each session
SessionFiles == <<{FileOrders, FileUsers}, {FileItems}>>

InitSessions ==
    /\ arg = Parked(FreshWidgets(<<>>),
                    [agg_conditions |-> <<>>, join_conditions |-> <<>>, conditions |-> <<>>,
                     history |-> <<>>, notifications |-> <<>>],
                    NoOutput)
    /\ ret = [session |-> 1]
    /\ FreshSession

\* The next script run the server executes belongs to the other session
SwitchSession ==
    LET next == Resumed(arg, Parked(widgets, Session, shown))
    IN  /\ arg' = Parked(widgets, Session, shown)
        /\ ret' = [session |-> 3 - ret.session]
        /\ widgets' = next.w
        /\ agg_conditions' = next.s.agg_conditions
        /\ join_conditions' = next.s.join_conditions
        /\ conditions' = next.s.conditions
        /\ history' = next.s.history
        /\ notifications' = next.s.notifications
        /\ shown' = next.out

NextSessions ==
    \/ SwitchSession
    \/ \E f \in SessionFiles[ret.session] : SelectFile(f)
    \/ \E f \in SessionFiles[ret.session] : DeselectFile(f)
    \/ ret.session = 2 /\ AddCondition(<<"i","d">>, <<"I","S"," ","N","O","T"," ","N","U","L","L">>, <<>>)
    \/ ret.session = 2 /\ agg_conditions = <<>> /\ ToggleAggregates
    \/ ret.session = 2 /\ agg_conditions = <<>> /\ AddAggregate
    \/ history = <<>> /\ ClickRunQuery([ok |-> TRUE, message |-> ""])

SpecSessions == InitSessions /\ [][NextSessions]_vars

\* The table names of the files of session k
OwnTables(k) == {sanitize_table_name(f.file_name) : f \in SessionFiles[k]}

\* The SQL text names tables of session k only
FromOwnTables(k, text) ==
    /\ \E t \in OwnTables(k) : Contains(text, <<" ","F","R","O","M"," ">> \o t)
    /\ \A t \in OwnTables(3 - k) : ~Contains(text, t)

\* Everything in the state st of session k stems from the files of session k
OwnStateOnly(k, st) ==
    /\ SeqToSet(st.w.selected_files) \subseteq SessionFiles[k]
    /\ \A i \in 1..Len(st.s.join_conditions) :
           st.s.join_conditions[i].empty
               \/ {st.s.join_conditions[i].left_table, st.s.join_conditions[i].right_table}
                      \subseteq OwnTables(k)
    /\ st.out.query # Absent => FromOwnTables(k, st.out.query)
    /\ \A i \in 1..Len(st.out.engine_calls) : FromOwnTables(k, st.out.engine_calls[i])
    /\ \A i \in 1..Len(st.s.history) : FromOwnTables(k, st.s.history[i].content)

EditAnswers == {[ok |-> TRUE, message |-> ""],
                [ok |-> FALSE, message |-> "Parser Error: syntax error"]}

NextEdit ==
    \/ SelectFile(FileOrders)
    \/ DeselectFile(FileOrders)
    \/ AddCondition(<<"t","o","t","a","l">>, <<">">>, <<"1","0","0">>)
    \/ \E i \in 0..(MaxConditions - 1) : RemoveCondition(i)
    \/ ToggleAggregates
    \/ agg_conditions = <<>> /\ AddAggregate
    \/ RemoveAggregate(0)
    \/ \E c \in {NoneChoice, <<"t","o","t","a","l">>} : SetOrderColumn(c)
    \/ \E e \in EditAnswers : history = <<>> /\ ClickRunQuery(e)

SpecEdit == InitSession /\ [][NextEdit]_vars

\* C22: building the SQL text executes nothing: the engine is invoked, and a history
\* entry or a notification is appended, only in an interaction in which the user
\* clicked Run Query (and then once); every other interaction leaves history and
\* notifications unchanged and passes nothing to the engine.
C22_OnlyRunQueryExecutes ==
    [][IF \E e \in EditAnswers : ClickRunQuery(e)
       THEN /\ Len(shown'.engine_calls) = 1
            /\ Len(history') = Len(history) + 1
            /\ Len(notifications') = Len(notifications) + 1
       ELSE /\ shown'.engine_calls = <<>>
            /\ ~shown'.result_shown
            /\ history' = history
            /\ notifications' = notifications]_vars

C22_Witness ==
    /\ Len(history) = 1
    /\ history[1].content = <<"S","E","L","E","C","T"," ","t","o","t","a","l",","," ","i","d",","," ","r","e","g","i","o","n"," ","F","R","O","M"," ","o","r","d","e","r","s"," ","L","I","M","I","T"," ","1","0","0">>
    /\ shown.query = <<"S","E","L","E","C","T"," ","C","O","U","N","T","(","t","o","t","a","l",")"," ","A","S"," ","c","o","u","n","t","_","t","o","t","a","l",","," ","i","d",","," ","r","e","g","i","o","n"," ","F","R","O","M"," ","o","r","d","e","r","s"," ","W","H","E","R","E"," ","t","o","t","a","l"," ",">"," ","1","0","0"," ","G","R","O","U","P"," ","B","Y"," ","i","d",","," ","r","e","g","i","o","n"," ","O","R","D","E","R"," ","B","Y"," ","t","o","t","a","l"," ","A","S","C"," ","L","I","M","I","T"," ","1","0","0">>
    /\ shown.engine_calls = <<>>
    /\ Len(notifications) = 1

\* --------- specification: the same session with a second file and plain reruns

NextRebuild ==
    \/ NextEdit
    \/ SelectFile(FileUsers)
    \/ DeselectFile(FileUsers)
    \/ Rerun

SpecRebuild == InitSession /\ [][NextRebuild]_vars

\* The model of the current state: selected tables and columns, aggregates, joins,
\* filters, order and limit
CurrentModel ==
    [selected_tables |-> CurrentTables, selected_columns |-> widgets.selected_columns,
     agg_conditions |-> agg_conditions, join_conditions |-> join_conditions,
     conditions |-> conditions, order_col |-> widgets.order_col,
     order_dir |-> widgets.order_dir, limit |-> widgets.limit]

CustomStatements ==
    {<<" ">>, <<"s","e","l","e","c","t"," ","1">>, <<" ","S","E","L","E","C","T"," ","i","d"," ","F","R","O","M"," ","o","r","d","e","r","s">>,
     <<"W","I","T","H"," ","t"," ","A","S"," ","(","S","E","L","E","C","T"," ","i","d"," ","F","R","O","M"," ","o","r","d","e","r","s",")"," ","S","E","L","E","C","T"," ","*"," ","F","R","O","M"," ","t">>,
     <<"D","R","O","P"," ","T","A","B","L","E"," ","o","r","d","e","r","s">>, <<"I","N","S","E","R","T"," ","I","N","T","O"," ","o","r","d","e","r","s"," ","V","A","L","U","E","S"," ","(","1",")">>}

NextCustom ==
    \E q \in CustomStatements, e \in EngineAnswers : ClickExecuteQuery(<<FileOrders>>, q, e)

SpecCustom == InitSession /\ [][NextCustom]_vars

\* The texts of CustomStatements that are read-only SELECT queries by the grammar of
\* the engine: a SELECT statement, with or without a leading WITH clause
ReadOnlySelects ==
    {<<"s","e","l","e","c","t"," ","1">>, <<" ","S","E","L","E","C","T"," ","i","d"," ","F","R","O","M"," ","o","r","d","e","r","s">>,
     <<"W","I","T","H"," ","t"," ","A","S"," ","(","S","E","L","E","C","T"," ","i","d"," ","F","R","O","M"," ","o","r","d","e","r","s",")"," ","S","E","L","E","C","T"," ","*"," ","F","R","O","M"," ","t">>}

\* C20: on the custom page a non-blank read-only SELECT query is executed once and its
\* result table is returned to the user; every other non-blank statement is executed
\* once without returning rows; the text is passed to the engine unchanged.
C20_SelectQueriesReturnRows ==
    [][\A q \in CustomStatements, e \in EngineAnswers :
          (Strip(q, Whitespace) # <<>> /\ e.ok /\ ClickExecuteQuery(<<FileOrders>>, q, e)) =>
              /\ shown'.engine_calls = <<q>>
              /\ q \in ReadOnlySelects =>
                     shown'.result_shown /\ shown'.result_of = q
              /\ q \notin ReadOnlySelects =>
                     ~shown'.result_shown /\ shown'.result_of = Absent]_vars

\* ------------------------------------------- specification: the SQL generation

MaxValueLen == 3

\* Every arrangement of distinct members of S: what a multiselect over S can hold
RECURSIVE Arrangements(_)
Arrangements(S) ==
    {<<>>} \cup UNION {{<<x>> \o rest : rest \in Arrangements(S \ {x})} : x \in S}

SeqsUpTo(S, n) == UNION {[1..k -> S] : k \in 0..n}

\* The model of a run with one file selected and everything else at its default
PlainModel(d) ==
    [selected_tables |-> TableNames(d), selected_columns |-> DefaultColumns(ColumnsIn(d)),
     agg_conditions |-> <<>>, join_conditions |-> <<>>, conditions |-> <<>>,
     order_col |-> NoneChoice, order_dir |-> <<"A","S","C">>, limit |-> DefaultLimit]

\* The entries the aggregate section can hold for a column selection
AggEntries(cols) ==
    [column : IF cols = <<>> THEN {Absent} ELSE SeqToSet(cols),
     function : AggregateFunctions]

\* One table with a column selection, aggregate entries over it and a limit
ColumnModel(d, cols, aggs, n) ==
    [PlainModel(d) EXCEPT !.selected_columns = cols, !.agg_conditions = aggs, !.limit = n]

GenerateFiles == {FileOrders, FileItems, File2024}

\* Characters of a condition value: a digit, the parts of a float literal, a blank,
\* a quote and letters
ValueAlphabet == {"1", ".", "-", "e", "_", " ", "'", "a", "n", ","}

ValueExamples == {<<"1","0","0">>, <<"s","h","i","p","p","e","d">>, <<"1","e","5">>, <<"1","_","0","0","0">>, <<"i","n","f">>, <<"I","n","f","i","n","i","t","y">>, <<" ","1","0","0"," ">>, <<"a",",","b">>,
                  <<"x","'",")"," ","O","R"," ","(","'","1","'","=","'","1">>}

ValueTexts == (TextsUpTo(ValueAlphabet, MaxValueLen) \cup ValueExamples) \ {<<>>}

\* What an accepted Add Condition click appends
AcceptedConditions(cols) ==
    {[column |-> c, operator |-> op, value |-> <<>>] : c \in cols, op \in NullOps}
    \cup {[column |-> c, operator |-> op, value |-> v] :
             c \in cols, op \in FilterOps \ NullOps, v \in ValueTexts}

\* One table with one condition
FilterModel(d, cond) == [PlainModel(d) EXCEPT !.conditions = <<cond>>]

MaxFilters == 2

\* Conditions of every operator kind on columns of the orders table
ConditionExamples ==
    {[column |-> <<"t","o","t","a","l">>, operator |-> <<"I","S"," ","N","U","L","L">>, value |-> <<>>],
     [column |-> <<"r","e","g","i","o","n">>, operator |-> <<"I","S"," ","N","O","T"," ","N","U","L","L">>, value |-> <<>>],
     [column |-> <<"i","d">>, operator |-> <<"I","N">>, value |-> <<" ","a",","," ","b"," ">>],
     [column |-> <<"r","e","g","i","o","n">>, operator |-> <<"L","I","K","E">>, value |-> <<"e","a">>],
     [column |-> <<"t","o","t","a","l">>, operator |-> <<">">>, value |-> <<"1","0","0">>]}

\* One table with a list of conditions
FiltersModel(d, conds) == [PlainModel(d) EXCEPT !.conditions = conds]

\* The models the generation is applied to: a table with any column selection and
\* either any aggregate entries over it or any limit, the orders table with any
\* accepted condition on its total column, and the orders table with up to MaxFilters
\* conditions
InitGenerate ==
    /\ \/ \E f \in GenerateFiles :
              \E cols \in Arrangements(SeqToSet(ColumnsIn(Loaded[f]))) :
                  \/ \E aggs \in SeqsUpTo(AggEntries(cols), MaxAggregates) :
                         arg = ColumnModel(Loaded[f], cols, aggs, DefaultLimit)
                  \/ \E n \in LimitChoices :
                         arg = ColumnModel(Loaded[f], cols, <<>>, n)
       \/ \E cond \in AcceptedConditions({<<"t","o","t","a","l">>}) :
              arg = FilterModel(Loaded[FileOrders], cond)
       \/ \E conds \in SeqsUpTo(ConditionExamples, MaxFilters) :
              arg = FiltersModel(Loaded[FileOrders], conds)
    /\ ret = NoValue
    /\ FreshSession

CallGenerateSQL ==
    /\ ret = NoValue
    /\ ret' = GenerateSQL(arg)
    /\ UNCHANGED <<arg, sessionVars>>

NextGenerate == CallGenerateSQL

SpecGenerate == InitGenerate /\ [][NextGenerate]_vars

\* The generation ran for the model in arg and built a query
Generated == ret # NoValue /\ ret.ok

\* texts separated by ", "
RECURSIVE CommaList(_)
CommaList(texts) ==
    IF texts = <<>> THEN <<>>
    ELSE IF Len(texts) = 1 THEN texts[1]
    ELSE texts[1] \o <<","," ">> \o CommaList(Tail(texts))

\* The function the aggregate assignment maps col to, or Absent: the function of the
\* last entry that names the column
MappedFunction(aggs, col) ==
    LET named == {i \in 1..Len(aggs) : aggs[i].column = col /\ aggs[i].function # Absent}
    IN  IF named = {} THEN Absent
        ELSE aggs[CHOOSE i \in named : \A j \in named : j <= i].function

\* The model has no aggregate assignment
NoAggregates(m) ==
    \A i \in 1..Len(m.agg_conditions) : m.agg_conditions[i].column = Absent

\* One table and no joins, filters or order column
SingleTablePlain(m) ==
    /\ Len(m.selected_tables) = 1
    /\ m.join_conditions = <<>>
    /\ m.conditions = <<>>
    /\ m.order_col = NoneChoice

\* C8: for a model with one table, no aggregates, no joins, no filters and no order
\* column the built SQL is exactly SELECT c1, c2, ... FROM table LIMIT n with the
\* selected columns in selection order, and SELECT * FROM table LIMIT n when no column
\* is selected.
C8_PlainSelectText ==
    (Generated /\ SingleTablePlain(arg) /\ NoAggregates(arg)) =>
        ret.query = <<"S","E","L","E","C","T"," ">>
                    \o (IF arg.selected_columns = <<>> THEN <<"*">>
                        ELSE CommaList(arg.selected_columns))
                    \o <<" ","F","R","O","M"," ">> \o arg.selected_tables[1]
                    \o <<" ","L","I","M","I","T"," ">> \o IntToText(arg.limit)

C8_Witness ==
    /\ Generated /\ SingleTablePlain(arg) /\ NoAggregates(arg)
    /\ arg.selected_columns = <<<<"i","d">>, <<"t","o","t","a","l">>>>
    /\ arg.limit = 50
    /\ ret.query = <<"S","E","L","E","C","T"," ","i","d",","," ","t","o","t","a","l"," ","F","R","O","M"," ","o","r","d","e","r","s"," ","L","I","M","I","T"," ","5","0">>

\* What C9 says a selected column renders as
ExpectedSelectItem(aggs, col) ==
    IF MappedFunction(aggs, col) = Absent THEN col
    ELSE MappedFunction(aggs, col) \o <<"(">> \o col \o <<")"," ","A","S"," ">>
         \o LowerText(MappedFunction(aggs, col)) \o <<"_">> \o col

\* The selected columns the assignment does not map, in selection order
UnmappedColumns(m) ==
    SelectSeq(m.selected_columns, LAMBDA c : MappedFunction(m.agg_conditions, c) = Absent)

\* C9: with a non-empty aggregate assignment each selected column renders in selection
\* order as FUNC(col) AS func_col when it is mapped and as the bare column otherwise,
\* and GROUP BY lists exactly the unmapped selected columns in selection order, emitted
\* if and only if that list is non-empty; with no assignment no GROUP BY is emitted.
C9_AggregateSelectAndGroupBy ==
    (Generated /\ SingleTablePlain(arg)) =>
        ret.query = <<"S","E","L","E","C","T"," ">>
                    \o (IF arg.selected_columns = <<>> THEN <<"*">>
                        ELSE CommaList([i \in 1..Len(arg.selected_columns) |->
                                 ExpectedSelectItem(arg.agg_conditions,
                                                    arg.selected_columns[i])]))
                    \o <<" ","F","R","O","M"," ">> \o arg.selected_tables[1]
                    \o (IF ~NoAggregates(arg) /\ UnmappedColumns(arg) # <<>>
                        THEN <<" ","G","R","O","U","P"," ","B","Y"," ">> \o CommaList(UnmappedColumns(arg))
                        ELSE <<>>)
                    \o <<" ","L","I","M","I","T"," ">> \o IntToText(arg.limit)

C9_Witness ==
    /\ Generated
    /\ arg.selected_columns = <<<<"r","e","g","i","o","n">>, <<"t","o","t","a","l">>>>
    /\ arg.agg_conditions = <<[column |-> <<"t","o","t","a","l">>, function |-> <<"S","U","M">>]>>
    /\ arg.limit = DefaultLimit
    /\ ret.query = <<"S","E","L","E","C","T"," ","r","e","g","i","o","n",","," ","S","U","M","(","t","o","t","a","l",")"," ","A","S"," ","s","u","m","_","t","o","t","a","l"," ","F","R","O","M"," ","o","r","d","e","r","s"," ","G","R","O","U","P"," ","B","Y"," ","r","e","g","i","o","n"," ","L","I","M","I","T"," ","1","0","0">>

\* The model in arg has a single filter, with a comparison operator
ComparisonFilter ==
    /\ Len(arg.conditions) = 1
    /\ arg.conditions[1].operator \in CompareOps

\* The text between WHERE and LIMIT of the query built for a model without GROUP BY
\* and ORDER BY
WhereText(query, m) ==
    LET head == <<"S","E","L","E","C","T"," ">> \o CommaList(m.selected_columns) \o <<" ","F","R","O","M"," ">>
                \o m.selected_tables[1] \o <<" ","W","H","E","R","E"," ">>
        tail == <<" ","L","I","M","I","T"," ">> \o IntToText(m.limit)
    IN  IF StartsWith(query, head) /\ EndsWith(query, tail)
           /\ Len(query) >= Len(head) + Len(tail)
        THEN SubSeq(query, Len(head) + 1, Len(query) - Len(tail))
        ELSE Absent

\* C10: a filter with one of = != > < >= <= renders as col op value, the value
\* unquoted, exactly when the value parses as a number, and as col op 'value' for
\* every other value.
C10_ComparisonValueQuoting ==
    (Generated /\ ComparisonFilter) =>
        LET cond == arg.conditions[1]
        IN  WhereText(ret.query, arg) =
                cond.column \o <<" ">> \o cond.operator \o <<" ">>
                \o (IF FloatParses(cond.value) THEN cond.value
                    ELSE <<"'">> \o cond.value \o <<"'">>)

C10_Witness ==
    /\ Generated /\ ComparisonFilter
    /\ arg.conditions[1] = [column |-> <<"t","o","t","a","l">>, operator |-> <<">","=">>, value |-> <<"s","h","i","p","p","e","d">>]
    /\ WhereText(ret.query, arg) = <<"t","o","t","a","l"," ",">","="," ","'","s","h","i","p","p","e","d","'">>

\* texts separated by " AND "
RECURSIVE AndList(_)
AndList(texts) ==
    IF texts = <<>> THEN <<>>
    ELSE IF Len(texts) = 1 THEN texts[1]
    ELSE texts[1] \o <<" ","A","N","D"," ">> \o AndList(Tail(texts))

\* The parts of a value between its commas, each without the blanks around it
RECURSIVE TrimmedParts(_, _)
TrimmedParts(val, part) ==
    IF val = <<>> THEN <<Strip(part, Whitespace)>>
    ELSE IF val[1] = "," THEN <<Strip(part, Whitespace)>> \o TrimmedParts(Tail(val), <<>>)
    ELSE TrimmedParts(Tail(val), Append(part, val[1]))

\* What C10 and C11 say a filter renders as
ExpectedPredicate(cond) ==
    IF cond.operator \in NullOps THEN cond.column \o <<" ">> \o cond.operator
    ELSE IF cond.operator = <<"I","N">>
    THEN cond.column \o <<" ","I","N"," ","(">>
         \o CommaList([i \in 1..Len(TrimmedParts(cond.value, <<>>)) |->
                          <<"'">> \o TrimmedParts(cond.value, <<>>)[i] \o <<"'">>])
         \o <<")">>
    ELSE IF cond.operator = <<"L","I","K","E">>
    THEN cond.column \o <<" ","L","I","K","E"," ","'","%">> \o cond.value \o <<"%","'">>
    ELSE cond.column \o <<" ">> \o cond.operator \o <<" ">>
         \o (IF FloatParses(cond.value) THEN cond.value ELSE <<"'">> \o cond.value \o <<"'">>)

\* One table, no joins, no order column and no aggregate assignment
FiltersOnly(m) ==
    /\ Len(m.selected_tables) = 1
    /\ m.join_conditions = <<>>
    /\ m.order_col = NoneChoice
    /\ NoAggregates(m)

\* C11: IS NULL and IS NOT NULL render as col IS NULL / col IS NOT NULL without a
\* value, IN renders the comma-separated parts of the value, trimmed and quoted, as
\* col IN ('p1', 'p2', ...), LIKE renders col LIKE '%value%'; the predicates are joined
\* with AND in the order the filters were added, and WHERE is emitted if and only if
\* there is at least one filter.
C11_WhereClauseRendering ==
    (Generated /\ FiltersOnly(arg)) =>
        ret.query = <<"S","E","L","E","C","T"," ">>
                    \o (IF arg.selected_columns = <<>> THEN <<"*">>
                        ELSE CommaList(arg.selected_columns))
                    \o <<" ","F","R","O","M"," ">> \o arg.selected_tables[1]
                    \o (IF arg.conditions = <<>> THEN <<>>
                        ELSE <<" ","W","H","E","R","E"," ">>
                             \o AndList([i \in 1..Len(arg.conditions) |->
                                            ExpectedPredicate(arg.conditions[i])]))
                    \o <<" ","L","I","M","I","T"," ">> \o IntToText(arg.limit)

C11_Witness ==
    /\ Generated
    /\ arg.conditions = <<[column |-> <<"i","d">>, operator |-> <<"I","N">>, value |-> <<" ","a",","," ","b"," ">>],
                          [column |-> <<"t","o","t","a","l">>, operator |-> <<"I","S"," ","N","U","L","L">>, value |-> <<>>]>>
    /\ ret.query = <<"S","E","L","E","C","T"," ","t","o","t","a","l",","," ","i","d",","," ","r","e","g","i","o","n"," ","F","R","O","M"," ","o","r","d","e","r","s"," ","W","H","E","R","E"," ","i","d"," ","I","N"," ","(","'","a","'",","," ","'","b","'",")"," ","A","N","D"," ","t","o","t","a","l"," ","I","S"," ","N","U","L","L"," ","L","I","M","I","T"," ","1","0","0">>

\* ------------------------------------------- specification: loading files

MaxLoaded == 2

FileOrdersXlsx == [file_name |-> <<"o","r","d","e","r","s",".","x","l","s","x">>, headers |-> <<<<"N","a","m","e">>, <<"n","a","m","e">>, <<"N","A","M","E">>>>]
FileYears      == [file_name |-> <<"y","e","a","r","s",".","x","l","s">>, headers |-> <<<<"i","d">>, NotText>>]
FileReadme     == [file_name |-> <<"r","e","a","d","m","e",".","t","x","t">>, headers |-> <<<<"i","d">>>>]

LoadFiles == {FileOrders, FileOrdersXlsx, FileYears, FileReadme}

LoadCases ==
    {InvalidObject}
        \cup {LoadCase(f, url, parse) :
                  f \in LoadFiles, url \in {"url", "none", "raises"}, parse \in {"ok", "raises"}}

NoPreview == [ok |-> FALSE, df |-> <<>>, error |-> <<>>, parser |-> "none"]

\* Different files are selected, each with one behaviour of the collaborators
InitLoad ==
    /\ \E cases \in SeqsUpTo(LoadCases, MaxLoaded) :
           /\ \A i, j \in 1..Len(cases) : i # j => cases[i].file # cases[j].file
           /\ arg = cases
    /\ ret = NoValue
    /\ FreshSession

\* The loading loop of the builder on the selected files
CallLoadSelected ==
    /\ ret = NoValue
    /\ ret' = [call |-> "load", load |-> LoadSelected(arg, NothingLoaded), preview |-> NoPreview]
    /\ UNCHANGED <<arg, sessionVars>>

\* The View button of the file manager on one stored file
CallParseFile ==
    /\ ret = NoValue
    /\ Len(arg) = 1
    /\ arg[1].object = "dict"
    /\ arg[1].url = "url"
    /\ ret' = [call |-> "parse", load |-> NothingLoaded, preview |-> parse_file_to_dataframe(arg[1])]
    /\ UNCHANGED <<arg, sessionVars>>

NextLoad == CallLoadSelected \/ CallParseFile

SpecLoad == InitLoad /\ [][NextLoad]_vars

\* load_file_as_table has returned for one file whose URL was signed
LoadedOne ==
    /\ ret # NoValue
    /\ ret.call = "load"
    /\ Len(arg) = 1
    /\ arg[1].object = "dict"
    /\ arg[1].url = "url"

ParsedOne == ret # NoValue /\ ret.call = "parse"

\* The text after the last "." of a file name
RECURSIVE Extension(_)
Extension(name) ==
    IF \E i \in 1..Len(name) : name[i] = "."
    THEN IF Head(name) = "." /\ \A i \in 2..Len(name) : name[i] # "."
         THEN Tail(name) ELSE Extension(Tail(name))
    ELSE <<"no extension">>

\* The file of the call cannot become a table: its extension is not supported, pandas
\* fails on it, or a column label cannot be sanitised
CannotLoad(c) ==
    \/ Extension(c.file.file_name) \notin {<<"c","s","v">>, <<"x","l","s">>, <<"x","l","s","x">>}
    \/ c.parse = "raises"
    \/ \E i \in 1..Len(c.file.headers) : c.file.headers[i] = NotText

ParserFor(name) ==
    IF Extension(name) = <<"c","s","v">> THEN "read_csv"
    ELSE IF Extension(name) \in {<<"x","l","s">>, <<"x","l","s","x">>} THEN "read_excel"
    ELSE "none"

\* C15: the loader dispatches on the extension (.csv as delimited text, .xls and .xlsx
\* as a spreadsheet); a file with another extension, a file pandas fails on and a file
\* whose column names cannot be sanitised is reported with its file name and gives no
\* table. Stated for load_file_as_table and for parse_file_to_dataframe.
C15_DispatchAndReportByFileName ==
    /\ LoadedOne =>
           /\ ret.load.parsers = <<ParserFor(arg[1].file.file_name)>>
           /\ CannotLoad(arg[1]) =>
                  /\ ret.load.tables = <<>>
                  /\ \E i \in 1..Len(ret.load.warnings) :
                         Contains(ret.load.warnings[i], arg[1].file.file_name)
           /\ ~CannotLoad(arg[1]) => Len(ret.load.tables) = 1 /\ ret.load.warnings = <<>>
    /\ ParsedOne =>
           /\ ret.preview.parser = ParserFor(arg[1].file.file_name)
           /\ CannotLoad(arg[1]) =>
                  /\ ~ret.preview.ok
                  /\ ret.preview.df = <<>>
                  /\ Contains(ret.preview.error, arg[1].file.file_name)
           /\ ~CannotLoad(arg[1]) => ret.preview.ok

\* The loading loop has ended for the selected files
LoadedAll == ret # NoValue /\ ret.call = "load"

\* Nothing fails for the file of the call
LoadsSuccessfully(c) == c.object = "dict" /\ c.url = "url" /\ ~CannotLoad(c)

\* C16: a failure of the loader for one file (invalid file object, signed URL,
\* unsupported format, parse error) is not fatal: the run goes on and every other
\* selected file that loads successfully is registered as a table.
C16_LoaderFailuresArePerFile ==
    LoadedAll =>
        /\ ~ret.load.raised
        /\ \A i \in 1..Len(arg) :
               LoadsSuccessfully(arg[i]) =>
                   \E k \in 1..Len(ret.load.tables) :
                       ret.load.tables[k].name = sanitize_table_name(arg[i].file.file_name)

PairwiseDistinct(names) == \A i, j \in 1..Len(names) : i # j => names[i] # names[j]

\* C17: every table produced by loading a file has pairwise distinct column names; of
\* headers that sanitise to the same name the first keeps it and the later ones get
\* _1, _2, ...: the headers Name, name, NAME give name, name_1, name_2.
C17_DistinctColumnNames ==
    /\ LoadedAll =>
           /\ \A k \in 1..Len(ret.load.tables) : PairwiseDistinct(ret.load.tables[k].columns)
           /\ (Len(arg) = 1 /\ arg[1] = LoadCase(FileOrdersXlsx, "url", "ok")) =>
                  ret.load.tables[1].columns = <<<<"n","a","m","e">>, <<"n","a","m","e","_","1">>, <<"n","a","m","e","_","2">>>>
    /\ (ParsedOne /\ ret.preview.ok) =>
           /\ PairwiseDistinct(ret.preview.df)
           /\ arg[1].file = FileOrdersXlsx => ret.preview.df = <<<<"n","a","m","e">>, <<"n","a","m","e","_","1">>, <<"n","a","m","e","_","2">>>>

\* ------------------------------------------- specification: names of tables and columns

MaxStemLen == 4

\* Letters of both cases, a digit, the underscore, other punctuation and the dot
StemAlphabet == {"a", "B", "7", "_", "-", "."}

InitNames ==
    /\ arg \in TextsUpTo(StemAlphabet, MaxStemLen)
    /\ ret = NoValue
    /\ FreshSession

\* The table name of the file arg.csv
CallSanitizeTableName ==
    /\ ret = NoValue
    /\ ret' = [call |-> "table", ok |-> TRUE, name |-> sanitize_table_name(arg \o <<".","c","s","v">>)]
    /\ UNCHANGED <<arg, sessionVars>>

\* The column name of the header arg
CallSanitizeColumnName ==
    /\ ret = NoValue
    /\ ret' = [call |-> "column", ok |-> TRUE, name |-> sanitize_column_name(arg)]
    /\ UNCHANGED <<arg, sessionVars>>

\* The storage name of the uploaded file arg.CSV
CallSanitizeFilename ==
    /\ ret = NoValue
    /\ ret' = [call |-> "filename",
               ok |-> sanitize_filename(arg \o <<".","C","S","V">>).ok,
               name |-> sanitize_filename(arg \o <<".","C","S","V">>).name]
    /\ UNCHANGED <<arg, sessionVars>>

NextNames == CallSanitizeTableName \/ CallSanitizeColumnName \/ CallSanitizeFilename

SpecNames == InitNames /\ [][NextNames]_vars

IsAlnum(c) == c \in LowerLetters \cup UpperLetters \cup Digits

\* s with every maximal run of non-alphanumeric characters replaced by one underscore
RECURSIVE RunsToUnderscore(_)
RunsToUnderscore(s) ==
    IF s = <<>> THEN <<>>
    ELSE IF IsAlnum(s[1]) THEN <<s[1]>> \o RunsToUnderscore(Tail(s))
    ELSE IF Len(s) > 1 /\ ~IsAlnum(s[2]) THEN RunsToUnderscore(Tail(s))
    ELSE <<"_">> \o RunsToUnderscore(Tail(s))

Normalised(s) == LowerText(Strip(RunsToUnderscore(s), {"_"}))

\* C18: the table name of a file is its name without the extension, every maximal run
\* of non-alphanumeric characters (underscores included) replaced by exactly one
\* underscore, leading and trailing underscores removed, lower-cased; column names
\* are derived from the headers in the same way.
C18_NameNormalisation ==
    ret # NoValue =>
        /\ ret.ok
        /\ ret.call \in {"table", "column"} => ret.name = Normalised(arg)
        /\ ret.call = "filename" => ret.name = Normalised(arg) \o <<".","c","s","v">>

\* The selected files that load successfully
LoadedCases == {i \in 1..Len(arg) : LoadsSuccessfully(arg[i])}

\* C19: each selected file that loads successfully yields exactly one table with a name
\* of its own: after k files have loaded, k tables are registered under k distinct
\* names and each file's table still holds that file's columns.
C19_OneTablePerLoadedFile ==
    (LoadedAll /\ ~ret.load.raised) =>
        /\ Len(ret.load.tables) = Cardinality(LoadedCases)
        /\ \A j, k \in 1..Len(ret.load.tables) :
               j # k => ret.load.tables[j].name # ret.load.tables[k].name
        /\ \A i \in LoadedCases :
               \E k \in 1..Len(ret.load.tables) :
                   /\ ret.load.tables[k].name = sanitize_table_name(arg[i].file.file_name)
                   /\ Len(ret.load.tables[k].columns) = Len(arg[i].file.headers)
                   /\ \A h \in 1..Len(arg[i].file.headers) :
                          ret.load.tables[k].columns[h]
                              = sanitize_column_name(arg[i].file.headers[h])

\* The position of the quote that closes the SQL string literal whose content starts at
\* position i of text ('' inside a literal is one quote character); 0 when the literal
\* is not closed
RECURSIVE ClosingQuote(_, _)
ClosingQuote(text, i) ==
    IF i > Len(text) THEN 0
    ELSE IF text[i] # "'" THEN ClosingQuote(text, i + 1)
    ELSE IF i < Len(text) /\ text[i + 1] = "'" THEN ClosingQuote(text, i + 2)
    ELSE i

\* text is one SQL string literal and nothing else
OneLiteral(text) ==
    Len(text) >= 2 /\ text[1] = "'" /\ ClosingQuote(text, 2) = Len(text)

\* text is a list of n SQL string literals separated by ", " and nothing else
RECURSIVE LiteralList(_, _)
LiteralList(text, n) ==
    IF n = 0 THEN FALSE
    ELSE /\ Len(text) >= 2
         /\ text[1] = "'"
         /\ LET k == ClosingQuote(text, 2)
            IN  /\ k > 0
                /\ IF n = 1 THEN k = Len(text)
                   ELSE /\ k + 2 < Len(text)
                        /\ SubSeq(text, k + 1, k + 2) = <<",", " ">>
                        /\ LiteralList(SubSeq(text, k + 3, Len(text)), n - 1)

\* The model in arg has a single filter whose value the generation puts in quotes
QuotedValueFilter ==
    /\ Len(arg.conditions) = 1
    /\ \/ arg.conditions[1].operator \in {<<"L","I","K","E">>, <<"I","N">>}
       \/ arg.conditions[1].operator \in CompareOps /\ ~FloatParses(arg.conditions[1].value)

\* C24: for every filter value the user can enter (single quotes, blanks, parentheses
\* and letters included) the value stays inside its literal in the WHERE clause: after
\* "col op " the clause is exactly one string literal (for IN: one literal per
\* comma-separated part, in parentheses), so the value can neither end its literal
\* nor add SQL tokens outside it.
C24_ValueStaysInsideItsLiteral ==
    (Generated /\ QuotedValueFilter) =>
        LET cond == arg.conditions[1]
            clause == WhereText(ret.query, arg)
            head == cond.column \o <<" ">> \o cond.operator \o <<" ">>
            rest == SubSeq(clause, Len(head) + 1, Len(clause))
        IN  /\ clause # Absent
            /\ StartsWith(clause, head)
            /\ IF cond.operator = <<"I","N">>
               THEN /\ Len(rest) >= 2
                    /\ rest[1] = "(" /\ rest[Len(rest)] = ")"
                    /\ LiteralList(SubSeq(rest, 2, Len(rest) - 1),
                                   Len(SplitOn(cond.value, ",")))
               ELSE OneLiteral(rest)

\* C25: every table name the loader derives from a file name and every column name it
\* derives from a header is accepted by sanitize_identifier, file names and headers
\* that begin with a digit or hold no alphanumeric character included.
C25_DerivedNamesAreIdentifiers ==
    (ret # NoValue /\ ret.call \in {"table", "column"} /\ arg # <<>>) =>
        sanitize_identifier(ret.name).ok

\* ------------------------------------------- file_manager.py: storage and metadata

\* file_manager.py line 18
UPLOAD_TYPES == {<<"p","c">>, <<"g","o","o","g","l","e","_","d","r","i","v","e">>, <<"s","c","h","e","d","u","l","e","d">>}

\* The bucket and the uploaded_files table, and the user id of the session
\* (st.session_state.user_id, Absent for None)
EmptyStore == [user_id |-> Absent, storage |-> {}, metadata |-> {}]

\* What a call returned, and the paths it passed to storage.upload and storage.remove
Reply(call, ok, message, uploaded, removed) ==
    [call |-> call, ok |-> ok, message |-> message, uploaded |-> uploaded,
     removed |-> removed]

\* f"{user_id}/{upload_type}"
Folder(user_id, upload_type) == user_id \o <<"/">> \o upload_type

\* storage.list(folder): the names of the objects directly inside the folder
ListFolder(storage, folder) ==
    {SubSeq(p, Len(folder) + 2, Len(p)) :
        p \in {q \in storage : /\ StartsWith(q, folder \o <<"/">>)
                               /\ \A i \in (Len(folder) + 2)..Len(q) : q[i] # "/"}}

\* upload_file, lines 39-102: the new store, the reply and the notification flag.
\* storage.upload does not overwrite (no upsert option is passed): on an existing path
\* the storage answers with an error, which line 96 turns into "Upload failed: ..."
upload_file(store, file_name, upload_type) ==
    LET user_id == store.user_id
        clean == sanitize_filename(file_name)
        file_path == Folder(user_id, upload_type) \o <<"/">> \o clean.name
        existing == ListFolder(store.storage, Folder(user_id, upload_type))
        refused(message, uploaded) ==
            [store |-> store, notify |-> FALSE,
             reply |-> Reply("upload", FALSE, message, uploaded, {})]
    IN  IF user_id = Absent THEN refused(<<"U","s","e","r"," ","n","o","t"," ","a","u","t","h","e","n","t","i","c","a","t","e","d">>, {})
        ELSE IF upload_type \notin UPLOAD_TYPES
        THEN refused(<<"I","n","v","a","l","i","d"," ","u","p","l","o","a","d"," ","t","y","p","e",":"," ">> \o upload_type, {})
        ELSE IF ~clean.ok
        THEN refused(<<"U","p","l","o","a","d"," ","f","a","i","l","e","d",":"," ","n","o","t"," ","e","n","o","u","g","h"," ","v","a","l","u","e","s"," ","t","o"," ","u","n","p","a","c","k"," ","(","e","x","p","e","c","t","e","d"," ","2",","," ","g","o","t"," ","1",")">>, {})
        ELSE IF file_name \in existing
        THEN refused(<<"F","i","l","e"," ","a","l","r","e","a","d","y"," ","e","x","i","s","t","s","."," ","P","l","e","a","s","e"," ","r","e","n","a","m","e"," ","o","r"," ","d","e","l","e","t","e"," ","i","t"," ","b","e","f","o","r","e"," ","u","p","l","o","a","d","i","n","g",".">>, {})
        ELSE IF file_path \in store.storage
        THEN refused(<<"U","p","l","o","a","d"," ","f","a","i","l","e","d",":"," ","T","h","e"," ","r","e","s","o","u","r","c","e"," ","a","l","r","e","a","d","y"," ","e","x","i","s","t","s">>, {file_path})
        ELSE [store |-> [store EXCEPT
                  !.storage = @ \cup {file_path},
                  !.metadata = @ \cup {[user_id |-> user_id, file_name |-> file_name,
                                        full_path |-> file_path,
                                        upload_type |-> upload_type]}],
              notify |-> TRUE,
              reply |-> Reply("upload", TRUE, file_path, {file_path}, {})]

\* The path lies outside the user's folder: it does not begin with f"{user_id}/"
OutsideFolderPrefix(user_id, file_path) == ~StartsWith(file_path, user_id \o <<"/">>)

\* Line 148: f"{user_id}/" not in file_path
OutsideFolder(user_id, file_path) == ~Contains(file_path, user_id \o <<"/">>)

\* delete_file, lines 145-167
delete_file(store, file_path) ==
    LET user_id == store.user_id
    IN  IF user_id = Absent \/ OutsideFolder(user_id, file_path)
        THEN [store |-> store,
              reply |-> Reply("delete", FALSE, <<"U","n","a","u","t","h","o","r","i","z","e","d"," ","d","e","l","e","t","i","o","n">>, {}, {})]
        ELSE [store |-> [store EXCEPT
                  !.storage = @ \ {file_path},
                  !.metadata = {r \in @ : ~(r.user_id = user_id /\ r.full_path = file_path)}],
              reply |-> Reply("delete", TRUE, <<"F","i","l","e"," ","d","e","l","e","t","e","d">>, {}, {file_path})]

\* ------------------------------------------- specification: uploads and deletions

MaxUploads == 2

\* Two users of the application
UserIds == {<<"u","1">>, <<"u","2">>}

\* Uploaded files: two of them have the same storage name
UploadNames == {<<"o","r","d","e","r","s",".","c","s","v">>, <<"M","y"," ","F","i","l","e",".","c","s","v">>, <<"m","y","_","f","i","l","e",".","c","s","v">>}

\* A valid upload type and one that is not in UPLOAD_TYPES
UploadTypeChoices == {<<"p","c">>, <<"u","s","b">>}

\* Paths handed to delete_file: the stored objects, and a path that holds the
\* user's folder name behind another folder
DeletePaths ==
    arg.storage \cup {<<"t","m","p","/">> \o Folder(u, <<"p","c">>) \o <<"/","o","r","d","e","r","s",".","c","s","v">> : u \in UserIds}

InitStorage ==
    /\ arg = EmptyStore
    /\ ret = NoValue
    /\ FreshSession

\* auth.py lines 163-164, 275-278: a login stores the user id in the session
LogIn(u) ==
    /\ arg.user_id = Absent
    /\ arg' = [arg EXCEPT !.user_id = u]
    /\ UNCHANGED <<ret, sessionVars>>

\* auth.py lines 90-92: logout removes the user id and the notifications
LogOut ==
    /\ arg.user_id # Absent
    /\ arg' = [arg EXCEPT !.user_id = Absent]
    /\ notifications' = <<>>
    /\ UNCHANGED <<ret, widgets, agg_conditions, join_conditions, conditions, history, shown>>

CallUploadFile(file_name, upload_type) ==
    LET r == upload_file(arg, file_name, upload_type)
    IN  /\ Len(notifications) < MaxUploads
        /\ arg' = r.store
        /\ ret' = r.reply
        /\ notifications' = IF r.notify
                            THEN add_notification(notifications, "File Uploaded",
                                     file_name \o <<" ","u","p","l","o","a","d","e","d"," ","s","u","c","c","e","s","s","f","u","l","l","y">>, "info")
                            ELSE notifications
        /\ UNCHANGED <<widgets, agg_conditions, join_conditions, conditions, history, shown>>

CallDeleteFile(file_path) ==
    LET r == delete_file(arg, file_path)
    IN  /\ arg' = r.store
        /\ ret' = r.reply
        /\ UNCHANGED sessionVars

NextStorage ==
    \/ \E u \in UserIds : LogIn(u)
    \/ LogOut
    \/ \E f \in UploadNames, t \in UploadTypeChoices : CallUploadFile(f, t)
    \/ \E p \in DeletePaths : CallDeleteFile(p)

SpecStorage == InitStorage /\ [][NextStorage]_vars

\* C27: delete_file removes the object and the metadata row only for a path that begins
\* with the folder of the calling user; for every other path, and without a user, it
\* answers "Unauthorized deletion", calls no removal and leaves storage and metadata
\* as they were.
C27_DeleteOnlyInsideOwnFolder ==
    [][\A p \in DeletePaths :
          (CallDeleteFile(p) /\ (arg.user_id = Absent \/ OutsideFolderPrefix(arg.user_id, p)))
              => /\ ret'.message = <<"U","n","a","u","t","h","o","r","i","z","e","d"," ","d","e","l","e","t","i","o","n">>
                 /\ ret'.removed = {}
                 /\ arg' = arg]_vars

\* C28: upload_file answers "File already exists" and writes nothing whenever the
\* folder of the user for the upload type already holds an object at the storage path
\* of the upload, so no upload is attempted onto an existing path.
C28_NoUploadOntoExistingPath ==
    [][\A f \in UploadNames, t \in UPLOAD_TYPES :
          (/\ CallUploadFile(f, t)
           /\ arg.user_id # Absent
           /\ (Folder(arg.user_id, t) \o <<"/">> \o sanitize_filename(f).name) \in arg.storage)
              => /\ StartsWith(ret'.message, <<"F","i","l","e"," ","a","l","r","e","a","d","y"," ","e","x","i","s","t","s">>)
                 /\ ret'.uploaded = {}
                 /\ arg' = arg]_vars

\* ------------------------------------------- specification: a long history

MaxAdds == 102

\* The n-th query of the session; the first one fails
NthQuery(n) == <<"S","E","L","E","C","T"," ">> \o IntToText(n)

HistoryEntry(n) ==
    [action_type |-> IF n = 1 THEN "query_failed" ELSE "query_executed",
     content |-> NthQuery(n),
     error |-> IF n = 1 THEN <<"B","i","n","d","e","r"," ","E","r","r","o","r">> ELSE Absent]

\* arg counts the entries added in the session and the entries added before the
\* last clear
InitHistory ==
    /\ arg = [added |-> 0, cleared_at |-> 0]
    /\ ret = NoValue
    /\ FreshSession

CallAddToHistory ==
    LET e == HistoryEntry(arg.added + 1)
    IN  /\ arg.added < MaxAdds
        /\ history' = add_to_history(history, e.action_type, e.content, e.error)
        /\ arg' = [arg EXCEPT !.added = @ + 1]
        /\ UNCHANGED <<ret, widgets, agg_conditions, join_conditions, conditions,
                       notifications, shown>>

CallClearHistory ==
    /\ history' = clear_history(history)
    /\ arg' = [arg EXCEPT !.cleared_at = arg.added]
    /\ UNCHANGED <<ret, widgets, agg_conditions, join_conditions, conditions,
                   notifications, shown>>

NextHistory == CallAddToHistory \/ CallClearHistory

SpecHistory == InitHistory /\ [][NextHistory]_vars

\* C29: after any sequence of add_to_history and clear_history calls the history
\* holds at most 100 entries, and they are the entries added last since the last
\* clear, in the order of their addition; after clear_history it is empty.
C29_HistoryKeepsLatestHundred ==
    LET since == arg.added - arg.cleared_at
        kept == IF since > 100 THEN 100 ELSE since
    IN  /\ Len(history) = kept
        /\ \A i \in 1..kept : history[i] = HistoryEntry(arg.added - kept + i)

\* A clear, and then more than a hundred entries
C29_Witness ==
    /\ arg.cleared_at > 0
    /\ arg.added - arg.cleared_at > 100
    /\ Len(history) = 100
    /\ history[1].content = NthQuery(arg.added - 99)
    /\ history[100].content = NthQuery(arg.added)

\* ------------------------------------------- auth.py: login, logout and the page gate

\* auth.py line 21; toggle_dev_mode, the only assignment to it, has no caller
DEV_MODE == FALSE

\* The authentication entries of st.session_state, the session_restored entry, and the
\* user whose tokens the "queryvista/" cookies of the browser hold (Absent for none)
NoAuth ==
    [authenticated |-> FALSE, user_id |-> Absent, session_restored |-> FALSE,
     cookies |-> Absent]

\* is_authenticated, lines 125-126
is_authenticated(auth) == IF DEV_MODE THEN TRUE ELSE auth.authenticated

\* check_auth_and_redirect: its return value
check_auth_and_redirect(auth) == is_authenticated(auth)

\* logout that leaves the session entries in place
LogoutKeepingSession(auth) == auth

\* logout, lines 83-99: the keys popped from st.session_state. The cookies it blanks
\* are those of the caller, app.py, whose manager has the prefix "supabase/"; the
\* "queryvista/" cookies stay
logout(auth) == [auth EXCEPT !.authenticated = FALSE, !.user_id = Absent]

\* restore_session_from_cookies, lines 64-81; accepted: supabase returned a user for
\* the tokens
restore_session_from_cookies(auth, accepted) ==
    IF auth.cookies # Absent /\ accepted
    THEN [auth EXCEPT !.authenticated = TRUE, !.user_id = auth.cookies]
    ELSE auth

\* restore_and_verify_session, lines 101-118
restore_and_verify_session(auth, accepted) ==
    IF auth.session_restored THEN auth
    ELSE [restore_session_from_cookies(auth, accepted) EXCEPT !.session_restored = TRUE]

\* list_files, file_manager.py lines 103-143: nothing without a user id
list_files(auth, stored) == IF auth.user_id = Absent THEN {} ELSE stored

\* ------------------------------------------- specification: login, logout and the pages

\* The files of either user
AuthFiles == {FileOrders}

\* ret names the page the last run rendered, and whether the session was logged out
\* and neither logged in nor restored since
InitAuth ==
    /\ arg = NoAuth
    /\ ret = [page |-> "none", logged_out |-> FALSE]
    /\ FreshSession

\* What a run of another page leaves of the query builder page: nothing shown, and the
\* values of the widgets it did not render are dropped
LeavesPage(out) ==
    /\ shown' = out
    /\ widgets' = FreshWidgets(<<>>)
    /\ UNCHANGED <<agg_conditions, join_conditions, conditions, history>>

\* pages/06_Login.py, auth.py lines 153-190: the Login button; ok: supabase accepted
\* the credentials
LoginSubmit(u, ok) ==
    /\ ~is_authenticated(arg)
    /\ IF ok
       THEN /\ arg' = [arg EXCEPT !.authenticated = TRUE, !.user_id = u, !.cookies = u]
            /\ notifications' = add_notification(notifications, "Login Successful",
                                    <<"W","e","l","c","o","m","e"," ","b","a","c","k",","," ">> \o u \o <<"!">>, "info")
            /\ ret' = [page |-> "login", logged_out |-> FALSE]
            /\ LeavesPage(NoOutput)
       ELSE /\ ret' = [ret EXCEPT !.page = "login"]
            /\ LeavesPage([NoOutput EXCEPT !.message =
                              [level |-> "error", text |-> <<"I","n","v","a","l","i","d"," ","e","m","a","i","l"," ","o","r"," ","p","a","s","s","w","o","r","d">>]])
            /\ UNCHANGED <<arg, notifications>>

\* app.py lines 95-98: the Logout button of the home page
HomeLogout ==
    /\ is_authenticated(arg)
    /\ arg' = logout(arg)
    /\ notifications' = add_notification(<<>>, "Logged Out",
                            <<"Y","o","u"," ","h","a","v","e"," ","b","e","e","n"," ","s","u","c","c","e","s","s","f","u","l","l","y"," ","l","o","g","g","e","d"," ","o","u","t",".">>, "info")
    /\ ret' = [page |-> "home", logged_out |-> TRUE]
    /\ LeavesPage(NoOutput)

\* app.py lines 44-66: the user opens the home page. Its restore reads the cookies
\* with the prefix "supabase/", which no page writes
VisitHome ==
    /\ ret.page # "home"
    /\ ret' = [ret EXCEPT !.page = "home"]
    /\ LeavesPage(NoOutput)
    /\ UNCHANGED <<arg, notifications>>

\* pages/01_Query_Builder.py, init_page: the user opens the query builder page
VisitBuilder(accepted) ==
    LET auth == restore_and_verify_session(arg, accepted)
        restored == auth.authenticated /\ ~arg.authenticated
        r == Interaction(<<>>, FreshWidgets(<<>>), Session, NoEvent)
    IN  /\ ret.page # "builder"
        /\ arg' = auth
        /\ IF ~check_auth_and_redirect(auth)
           THEN /\ ret' = [ret EXCEPT !.page = "blocked"]
                /\ LeavesPage([NoOutput EXCEPT !.message =
                       [level |-> "warning",
                        text |-> <<"Y","o","u"," ","n","e","e","d"," ","t","o"," ","b","e"," ","l","o","g","g","e","d"," ","i","n"," ","t","o"," ","a","c","c","e","s","s"," ","t","h","i","s"," ","f","e","a","t","u","r","e",".">>]])
                /\ UNCHANGED notifications
           ELSE IF list_files(auth, AuthFiles) = {}
           THEN /\ ret' = [page |-> "no files", logged_out |-> ret.logged_out /\ ~restored]
                /\ LeavesPage([NoOutput EXCEPT !.message =
                       [level |-> "warning",
                        text |-> <<"N","o"," ","f","i","l","e","s"," ","f","o","u","n","d"," ","f","o","r"," ","s","e","l","e","c","t","e","d"," ","s","o","u","r","c","e",".">>]])
                /\ UNCHANGED notifications
           ELSE /\ ret' = [page |-> "builder", logged_out |-> ret.logged_out /\ ~restored]
                /\ widgets' = r.w
                /\ agg_conditions' = r.s.agg_conditions
                /\ join_conditions' = r.s.join_conditions
                /\ conditions' = r.s.conditions
                /\ history' = r.s.history
                /\ notifications' = r.s.notifications
                /\ shown' = r.out

\* A widget of the rendered query builder page is used: the script runs again, passes
\* init_page and lists the files
OnBuilder ==
    /\ ret.page = "builder"
    /\ check_auth_and_redirect(arg)
    /\ list_files(arg, AuthFiles) # {}

NextAuth ==
    \/ \E u \in UserIds, ok \in BOOLEAN : LoginSubmit(u, ok)
    \/ HomeLogout
    \/ \E accepted \in BOOLEAN : VisitBuilder(accepted)
    \/ \E f \in AuthFiles : OnBuilder /\ SelectFile(f)
    \/ \E f \in AuthFiles : OnBuilder /\ DeselectFile(f)
    \/ OnBuilder /\ ClickRunQuery([ok |-> TRUE, message |-> ""])
    \/ OnBuilder /\ AddCondition(<<"t","o","t","a","l">>, <<">">>, <<"1","0","0">>)
    \/ VisitHome

SpecAuth == InitAuth /\ [][NextAuth]_vars

\* The last run loaded the selected files; it passed SQL to the engine
LoadsFiles == ret.page = "builder" /\ CurrentTables # <<>>

ExecutesSql == shown.engine_calls # <<>>

\* C30: a page loads files and executes SQL only while the session is authenticated;
\* after a logout no file is loaded and no SQL is executed in the session until a
\* later successful login or session restore.
C30_PagesWorkOnlyWhenAuthenticated ==
    []((LoadsFiles \/ ExecutesSql) => (arg.authenticated /\ ~ret.logged_out))

\* A query was executed after a logout and a second login
C30_Witness ==
    /\ ExecutesSql
    /\ LoadsFiles
    /\ Len(notifications) = 3
    /\ notifications[1].title = "Logged Out"
    /\ notifications[2].title = "Login Successful"
    /\ arg.authenticated

\* ------------------------------------------- specification: sanitize_identifier

\* Letters, a digit, underscore, space, punctuation and a line break
NameAlphabet == {"a", "Z", "_", "7", " ", ";", "\n"}

InitSanitize ==
    /\ arg \in TextsUpTo(NameAlphabet, MaxNameLen)
    /\ ret = NoValue
    /\ FreshSession

CallSanitizeIdentifier ==
    /\ ret = NoValue
    /\ ret' = sanitize_identifier(arg)
    /\ UNCHANGED <<arg, sessionVars>>

NextSanitize == CallSanitizeIdentifier

SpecSanitize == InitSanitize /\ [][NextSanitize]_vars

\* The whole text is one letter or underscore followed by letters, digits or underscores
IsPlainIdentifier(s) ==
    /\ Len(s) >= 1
    /\ IsIdentStart(s[1])
    /\ \A j \in 2..Len(s) : IsIdentPart(s[j])

\* C2: sanitize_identifier returns its argument unchanged exactly when the whole
\* string is a plain identifier, and fails with an invalid-identifier error carrying
\* the value for every other string (the empty string included).
C2_SanitizeExactlyIdentifiers ==
    ret # NoValue =>
        IF IsPlainIdentifier(arg)
        THEN ret = [ok |-> TRUE, value |-> arg]
        ELSE ret = [ok |-> FALSE, error |-> InvalidIdentifierPrefix \o arg]

====
